---- MODULE Spec2Model ----
(***************************************************************************)
(* Spawn/drop state machine and physics stabilisation of oh-balls-2.       *)
(*                                                                         *)
(* The repository holds several snapshots of the same game.  The variable  *)
(* `variant` selects the snapshot of the BallManager that a behaviour      *)
(* follows; it is chosen in Init and never changes:                        *)
(*   "ballJs"    src/js/ball.js            (gameState + grace-period GC)   *)
(*   "part002"   src/unnamed/part_002:379  (lastDropTime, throttled GC)    *)
(*   "part011c"  src/unnamed/part_011:748  (lastDropTime, throttled GC)    *)
(*   "part011b"  src/unnamed/part_011:496  (nextSpawnTime, GC not called)  *)
(*   "part014"   src/unnamed/part_014:120  (setTimeout driven respawn)     *)
(* Times are milliseconds of performance.now(), lengths are canvas units.  *)
(*                                                                         *)
(* The variable `engine` selects the snapshot of the physics wrapper whose *)
(* update() a behaviour of SpecPhys follows:                               *)
(*   "part004"  src/unnamed/part_004:450  (stabilizePhysics)               *)
(*   "part006"  src/unnamed/part_006:254  (enforceBoundaries, tolerance)   *)
(*   "part011"  src/unnamed/part_011:296  (clampVelocities)                *)
(*   "sceneJs"  src/js/scene.js:473       (stopJittering)                  *)
(* Velocities of the physics bodies are in 1/1000 unit per step.           *)
(***************************************************************************)
EXTENDS Integers, Sequences, FiniteSets, TLC

\* ---------------------------------------------------------------- bounds
MaxBalls == 2
MaxTime == 6000
MaxTimeThrottled == 16000
MaxTimeRail == 1000
TickMs == 1000
MaxExcursion == 1

\* ------------------------------------------------------ program constants
CanvasWidth == 1024
CanvasHeight == 768
SpawnX == 512
SpawnY == 50
MoveDistance == 5
GracePeriod == 3000
MaxOffScreenDistance == 200
SpawnDelayBallJs == 2000
SpawnDelayPart002 == 1000
SpawnDelayPart011c == 1000
SpawnDelayPart011b == 2000
SpawnDelayPart014 == 2000
CleanupIntervalPart002 == 15000
CleanupIntervalPart011c == 15000
BelowMarginPart002 == 100
BelowLimitPart014 == 800
WallThicknessBallJs == 17
WallThicknessPart011 == 16
\* constants.js is not part of the sources; the specification's scenario
\* (16-unit walls) gives the value imported by part_002.
WallThicknessConstantsJs == 16
SpawnYOffCanvasPart002 == 0 - 100

NoBall == 0
NoTimer == 0 - 1
NoDrop == 0 - 1

Variants == {"ballJs", "part002", "part011c", "part011b", "part014"}
ListVariants == {"ballJs", "part011b", "part014"}
SizeChoices == {1, 3}
TestSizePart011c == 5
TestShift == 2000

Max(a, b) == IF a >= b THEN a ELSE b
Min(a, b) == IF a <= b THEN a ELSE b
Abs(a) == IF a >= 0 THEN a ELSE 0 - a

VARIABLES variant, now, ball, balls, world, currentBall, nextBallSize,
          gameState, lastDropTime, nextSpawnTime, offScreenBalls,
          lastCleanupTime, lastCurrentBallPosition, spawnTimeoutId,
          dropAt, seenOff, engine, body, undisturbed

\* The objects of the other subsystems, one variable per object; an object
\* that a behaviour does not construct stays << >>.
VARIABLES faller, physics, factory, input, scenes, loop, contact, game,
          respawn

\* dropAt, seenOff and undisturbed are history variables: the time of the
\* last successful dropCurrentBall (NoDrop before the first); for every ball
\* that was beyond the off-screen margin at the last frame (for the
\* throttled cleanups: at the last pass that looked) the time of the first
\* frame of the unbroken run of frames that found it there; and the bodies
\* that were at rest before the last update() and on which nothing but
\* gravity acted during it.
vars == <<variant, now, ball, balls, world, currentBall, nextBallSize,
          gameState, lastDropTime, nextSpawnTime, offScreenBalls,
          lastCleanupTime, lastCurrentBallPosition, spawnTimeoutId,
          dropAt, seenOff, engine, body, undisturbed, faller, physics, factory,
          input, scenes, loop, contact, game, respawn>>

appVars ==
  <<faller, physics, factory, input, scenes, loop, contact, game,
    respawn>>

NotConstructed == << >>

AppIdle ==
  /\ faller = NotConstructed
  /\ physics = NotConstructed
  /\ factory = NotConstructed
  /\ input = NotConstructed
  /\ scenes = NotConstructed
  /\ loop = NotConstructed
  /\ contact = NotConstructed
  /\ game = NotConstructed
  /\ respawn = NotConstructed

mgrVars == <<variant, now, ball, balls, world, currentBall, nextBallSize,
             gameState, lastDropTime, nextSpawnTime, offScreenBalls,
             lastCleanupTime, lastCurrentBallPosition, spawnTimeoutId,
             dropAt, seenOff>>

physVars == <<engine, body, undisturbed>>

progVars == <<variant, now, ball, balls, world, currentBall, nextBallSize,
              gameState, lastDropTime, nextSpawnTime, offScreenBalls,
              lastCleanupTime, lastCurrentBallPosition, spawnTimeoutId>>

\* The whole program state as one value, so that handlers compose.
Cur ==
  [variant |-> variant, now |-> now, ball |-> ball, balls |-> balls,
   world |-> world, currentBall |-> currentBall,
   nextBallSize |-> nextBallSize, gameState |-> gameState,
   lastDropTime |-> lastDropTime, nextSpawnTime |-> nextSpawnTime,
   offScreenBalls |-> offScreenBalls, lastCleanupTime |-> lastCleanupTime,
   lastCurrentBallPosition |-> lastCurrentBallPosition,
   spawnTimeoutId |-> spawnTimeoutId]

Commit(S) ==
  /\ variant' = S.variant
  /\ now' = S.now
  /\ ball' = S.ball
  /\ balls' = S.balls
  /\ world' = S.world
  /\ currentBall' = S.currentBall
  /\ nextBallSize' = S.nextBallSize
  /\ gameState' = S.gameState
  /\ lastDropTime' = S.lastDropTime
  /\ nextSpawnTime' = S.nextSpawnTime
  /\ offScreenBalls' = S.offScreenBalls
  /\ lastCleanupTime' = S.lastCleanupTime
  /\ lastCurrentBallPosition' = S.lastCurrentBallPosition
  /\ spawnTimeoutId' = S.spawnTimeoutId

\* ------------------------------------------------------------------ Ball
calculateRadius(v, size) ==
  IF v \in {"part002", "part011c"} THEN 25 + (size - 1) * 5
  ELSE 15 + (size - 1) * 3

\* new Ball(...): the body is created at (x, y) with zero velocity and is
\* made static; ball.js and part_014 record isCurrentBall, part_011:404
\* starts every ball with verticalDrop = true.
NewBall(v, x, y, size) ==
  [size |-> size, radius |-> calculateRadius(v, size), x |-> x, y |-> y,
   vx |-> 0, vy |-> 0, av |-> 0, isStatic |-> TRUE,
   isCurrentBall |-> (v \in {"ballJs", "part014"}),
   verticalDrop |-> (v = "part011b")]

releaseKeepsStatic(v, b) ==
  [b EXCEPT !.av = 0, !.vx = 0, !.vy = 0, !.isCurrentBall = FALSE]

release(v, b) ==
  CASE v = "ballJs" ->
         IF b.isCurrentBall
         THEN [b EXCEPT !.isStatic = FALSE, !.av = 0, !.vx = 0, !.vy = 0,
                        !.isCurrentBall = FALSE]
         ELSE b
    [] v = "part014" ->
         IF b.isCurrentBall
         THEN [b EXCEPT !.isStatic = FALSE, !.isCurrentBall = FALSE]
         ELSE b
    [] v = "part011b" ->
         [b EXCEPT !.isStatic = FALSE, !.av = 0, !.vx = 0, !.vy = 0,
                   !.isCurrentBall = FALSE]
    [] OTHER ->
         [b EXCEPT !.isStatic = FALSE, !.av = 0, !.vx = 0, !.vy = 0]

\* ----------------------------------------------------------- BallManager
wallThickness(v) ==
  CASE v \in {"ballJs", "part014"} -> WallThicknessBallJs
    [] v = "part002" -> WallThicknessConstantsJs
    [] OTHER -> WallThicknessPart011

keepXWithinBoundsNoRadius(v, x, b) ==
  Max(wallThickness(v), Min(CanvasWidth - wallThickness(v), x))

keepXWithinBounds(v, x, b) ==
  LET minX == wallThickness(v) + b.radius
      maxX == CanvasWidth - wallThickness(v) - b.radius
  IN  Max(minX, Min(maxX, x))

CooldownActiveInverted(S) ==
  CASE S.variant = "ballJs" ->
         S.gameState = "waiting" /\ S.now > S.nextSpawnTime
    [] S.variant = "part002" -> S.now - S.lastDropTime > SpawnDelayPart002
    [] S.variant = "part011c" -> S.now - S.lastDropTime > SpawnDelayPart011c
    [] S.variant = "part011b" -> S.now > S.nextSpawnTime
    [] OTHER -> FALSE

\* The clock test of spawnBall.
CooldownActive(S) ==
  CASE S.variant = "ballJs" ->
         S.gameState = "waiting" /\ S.now < S.nextSpawnTime
    [] S.variant = "part002" -> S.now - S.lastDropTime < SpawnDelayPart002
    [] S.variant = "part011c" -> S.now - S.lastDropTime < SpawnDelayPart011c
    [] S.variant = "part011b" -> S.now < S.nextSpawnTime
    [] OTHER -> FALSE

createBallOffCanvas(S, r) ==
  LET v == S.variant
      id == Len(S.ball) + 1
      size == IF v \in {"ballJs", "part014"} THEN S.nextBallSize ELSE r
      b0 == NewBall(v, SpawnX,
                    IF v = "part002" THEN SpawnYOffCanvasPart002
                    ELSE SpawnY, size)
      b == IF v = "part002"
           THEN [b0 EXCEPT
                   !.x = keepXWithinBounds(v, S.lastCurrentBallPosition, b0)]
           ELSE b0
  IN  [S EXCEPT !.ball = Append(S.ball, b),
                !.world = S.world \cup {id},
                !.balls = IF v \in ListVariants THEN Append(S.balls, id)
                          ELSE S.balls,
                !.currentBall = id,
                !.nextBallSize = IF v \in {"ballJs", "part014"} THEN r
                                 ELSE S.nextBallSize,
                !.gameState = IF v = "ballJs" THEN "ready"
                              ELSE S.gameState]

\* The body of spawnBall after its two early returns; r is the value the
\* next Math.random() size draw yields.
createBall(S, r) ==
  LET v == S.variant
      id == Len(S.ball) + 1
      size == IF v \in {"ballJs", "part014"} THEN S.nextBallSize ELSE r
      b0 == NewBall(v, SpawnX,
                    IF v = "part002" THEN SpawnYOffCanvasPart002
                    ELSE SpawnY, size)
      b == IF v = "part002"
           THEN [b0 EXCEPT
                   !.x = keepXWithinBounds(v, S.lastCurrentBallPosition, b0),
                   !.y = SpawnY]
           ELSE b0
  IN  [S EXCEPT !.ball = Append(S.ball, b),
                !.world = S.world \cup {id},
                !.balls = IF v \in ListVariants THEN Append(S.balls, id)
                          ELSE S.balls,
                !.currentBall = id,
                !.nextBallSize = IF v \in {"ballJs", "part014"} THEN r
                                 ELSE S.nextBallSize,
                !.gameState = IF v = "ballJs" THEN "ready"
                              ELSE S.gameState]

spawnBallNoCurrentCheck(S, r) ==
  IF CooldownActive(S) THEN S ELSE createBall(S, r)

spawnBall(S, r) ==
  IF S.currentBall # NoBall THEN S
  ELSE IF CooldownActive(S) THEN S
  ELSE createBall(S, r)

dropCurrentBall(S) ==
  IF S.currentBall = NoBall THEN S
  ELSE IF S.variant = "ballJs" /\ S.gameState # "ready" THEN S
  ELSE
    LET v == S.variant
        id == S.currentBall
        S1 == [S EXCEPT !.ball[id] = release(v, S.ball[id]),
                        !.currentBall = NoBall]
    IN  CASE v = "ballJs" ->
               [S1 EXCEPT !.lastDropTime = S.now,
                          !.nextSpawnTime = S.now + SpawnDelayBallJs,
                          !.gameState = "waiting"]
          [] v = "part011b" ->
               [S1 EXCEPT !.nextSpawnTime = S.now + SpawnDelayPart011b]
          [] v = "part014" ->
               [S1 EXCEPT !.lastDropTime = S.now,
                          !.spawnTimeoutId = S.now + SpawnDelayPart014]
          [] OTHER ->
               [S1 EXCEPT !.lastDropTime = S.now]

moveCurrentBall(S, direction) ==
  IF S.currentBall = NoBall THEN S
  ELSE
    LET v == S.variant
        id == S.currentBall
        b == S.ball[id]
        newX == keepXWithinBounds(v, b.x + direction * MoveDistance, b)
    IN  IF v \in {"ballJs", "part014"} /\ ~b.isCurrentBall THEN S
        ELSE [S EXCEPT !.ball[id].x = newX,
                       !.lastCurrentBallPosition =
                          IF v = "part002" THEN newX
                          ELSE S.lastCurrentBallPosition]

\* The spawn timer of part_014 fires: spawnBall(), then the id is cleared.
spawnTimeout(S, r) ==
  [spawnBall(S, r) EXCEPT !.spawnTimeoutId = NoTimer]

\* ----------------------------------------------------------------- cleanup
isOffScreen(v, b) ==
  CASE v \in {"ballJs", "part011b"} ->
         \/ b.y > CanvasHeight + MaxOffScreenDistance
         \/ b.x < 0 - MaxOffScreenDistance
         \/ b.x > CanvasWidth + MaxOffScreenDistance
         \/ b.y < 0 - MaxOffScreenDistance
    [] v = "part002" -> b.y > CanvasHeight + BelowMarginPart002
    [] v = "part011c" ->
         b.x < 0 \/ b.x > CanvasWidth \/ b.y < 0 \/ b.y > CanvasHeight
    [] OTHER -> b.y > BelowLimitPart014

InList(S, id) == \E i \in 1..Len(S.balls) : S.balls[i] = id

GraceExpiredAtLimit(S, id) ==
  /\ isOffScreen(S.variant, S.ball[id])
  /\ id \in DOMAIN S.offScreenBalls
  /\ S.now - S.offScreenBalls[id] >= GracePeriod

\* ball.js / part_011:582: the filter callback's verdict on one ball.
GraceExpired(S, id) ==
  /\ isOffScreen(S.variant, S.ball[id])
  /\ id \in DOMAIN S.offScreenBalls
  /\ S.now - S.offScreenBalls[id] > GracePeriod

cleanupGrace(S) ==
  LET listed == {id \in 1..Len(S.ball) : InList(S, id)}
      gone == {id \in listed : GraceExpired(S, id)}
      tracked == {id \in listed \ gone : isOffScreen(S.variant, S.ball[id])}
      untouched == DOMAIN S.offScreenBalls \ listed
  IN  [S EXCEPT
         !.balls = SelectSeq(S.balls, LAMBDA id : id \notin gone),
         !.world = S.world \ gone,
         !.offScreenBalls =
            [id \in tracked \cup untouched |->
               IF id \in DOMAIN S.offScreenBalls THEN S.offScreenBalls[id]
               ELSE S.now]]

\* part_002:477 / part_011:883: throttled sweep over the ball bodies that
\* are in the world; an off-screen ball is destroyed at once.
cleanupThrottled(S) ==
  LET interval == IF S.variant = "part002" THEN CleanupIntervalPart002
                  ELSE CleanupIntervalPart011c
  IN  IF S.now - S.lastCleanupTime < interval THEN S
      ELSE [S EXCEPT
              !.lastCleanupTime = S.now,
              !.world = {id \in S.world :
                           ~isOffScreen(S.variant, S.ball[id])}]

\* part_014:228: balls below the canvas are destroyed and dropped from the
\* list in the same pass.
cleanupBelow(S) ==
  LET gone == {id \in 1..Len(S.ball) :
                 InList(S, id) /\ isOffScreen(S.variant, S.ball[id])}
  IN  [S EXCEPT !.balls = SelectSeq(S.balls, LAMBDA id : id \notin gone),
                !.world = S.world \ gone]

\* The debug key: every ball of the world whose size is sizeZap is moved
\* 2000 to the left (part_011:910 zaps size 5, part_002:505 a random size).
testBalls(S, sizeZap) ==
  [S EXCEPT !.ball =
     [id \in 1..Len(S.ball) |->
        IF id \in S.world /\ S.ball[id].size = sizeZap
        THEN [S.ball[id] EXCEPT !.x = @ - TestShift]
        ELSE S.ball[id]]]

cleanup(S) ==
  CASE S.variant \in {"ballJs", "part011b"} -> cleanupGrace(S)
    [] S.variant \in {"part002", "part011c"} -> cleanupThrottled(S)
    [] OTHER -> cleanupBelow(S)

\* BallManager.update() of ball.js, updateFrame() of the other snapshots.
updateFrame(S, r) ==
  CASE S.variant = "ballJs" ->
         IF /\ S.gameState = "waiting"
            /\ S.currentBall = NoBall
            /\ S.now >= S.nextSpawnTime
         THEN spawnBall(S, r) ELSE S
    [] S.variant \in {"part002", "part011c"} -> cleanup(spawnBall(S, r))
    [] S.variant = "part011b" -> spawnBall(S, r)
    [] OTHER -> S

\* ------------------------------------------------------------ solver step
\* Matter.Engine.update / the wrapped solver: every non-static body that is
\* in the world gets the position and velocity the solver computed for it.
SolverOutcomes ==
  { [x |-> 512, y |-> 400, vx |-> 0, vy |-> 5, av |-> 0],
    [x |-> 512, y |-> 820, vx |-> 0, vy |-> 7, av |-> 0],
    [x |-> 0 - 250, y |-> 1000, vx |-> 0 - 6, vy |-> 9, av |-> 1] }

DynamicIds(S) == {id \in S.world : ~S.ball[id].isStatic}

engineUpdate(S, f) ==
  [S EXCEPT !.ball =
     [id \in 1..Len(S.ball) |->
        IF id \in DynamicIds(S)
        THEN [S.ball[id] EXCEPT !.x = f[id].x, !.y = f[id].y,
                                !.vx = f[id].vx, !.vy = f[id].vy,
                                !.av = f[id].av]
        ELSE S.ball[id]]]

\* ------------------------------------------------------- contact events
\* A contact pair names two bodies: a ball id, or one of the boundaries.
Ground == 0 - 1
MaxPairs == 2

IsBallBody(b) == b >= 1

CollisionPairs(S) ==
  {p \in (S.world \cup {Ground}) \X (S.world \cup {Ground}) : p[1] # p[2]}

CollisionEvents(S) ==
  UNION {[1..n -> CollisionPairs(S)] : n \in 1..MaxPairs}

ClearVerticalDrop(S, ids) ==
  [S EXCEPT !.ball = [id \in 1..Len(S.ball) |->
                        IF id \in ids
                        THEN [S.ball[id] EXCEPT !.verticalDrop = FALSE]
                        ELSE S.ball[id]]]

onCollisionStartOnlyBodyA(S, e) ==
  ClearVerticalDrop(S, {e[i][1] : i \in {j \in 1..Len(e) :
                          IsBallBody(e[j][1]) /\ IsBallBody(e[j][2])}})

\* scene.js:120 collisionStart handler: every pair of two 'ball' bodies
\* clears verticalDrop on both ball instances.
onCollisionStart(S, e) ==
  LET hit == {i \in 1..Len(e) : IsBallBody(e[i][1]) /\ IsBallBody(e[i][2])}
  IN  ClearVerticalDrop(S, {e[i][1] : i \in hit} \cup {e[i][2] : i \in hit})

\* Game.update of part_003: input, scene update, BallManager.update, cleanup.
applyKeys(S, keys) ==
  LET S1 == IF "left" \in keys THEN moveCurrentBall(S, 0 - 1) ELSE S
  IN  IF "right" \in keys THEN moveCurrentBall(S1, 1) ELSE S1

gameUpdate(S, keys, f, r) ==
  cleanup(updateFrame(engineUpdate(applyKeys(S, keys), f), r))

\* SceneBallsX.update: updatePhysics, then BallManager.updateFrame.
sceneUpdate(S, f, r) == updateFrame(engineUpdate(S, f), r)

\* ------------------------------------------------------------------- Init
ManagerConstructed ==
  /\ now = 0
  /\ ball = << >>
  /\ balls = << >>
  /\ world = {}
  /\ currentBall = NoBall
  /\ gameState = "ready"
  /\ lastDropTime = 0
  /\ nextSpawnTime = 0
  /\ offScreenBalls = << >>
  /\ lastCleanupTime = 0
  /\ lastCurrentBallPosition = CanvasWidth \div 2
  /\ spawnTimeoutId = NoTimer
  /\ dropAt = NoDrop
  /\ seenOff = << >>

Init ==
  /\ variant \in Variants
  /\ nextBallSize \in (IF variant \in {"ballJs", "part014"} THEN SizeChoices
                       ELSE {1})
  /\ ManagerConstructed
  /\ engine = "none"
  /\ body = << >>
  /\ undisturbed = {}
  /\ AppIdle

\* ---------------------------------------------------------------- actions
\* The model creates at most MaxBalls balls: a step in which spawnBall would
\* create one more is not explored.
WithinBalls(S) == Len(S.ball) <= MaxBalls

\* The bodies a cleanup pass looks at, and what it has seen of them.
CleanupLooks(S) ==
  S.variant \in {"part002", "part011c"} =>
     S.now - S.lastCleanupTime >=
        (IF S.variant = "part002" THEN CleanupIntervalPart002
         ELSE CleanupIntervalPart011c)

Inspected(S) ==
  IF S.variant \in ListVariants
  THEN {id \in 1..Len(S.ball) : InList(S, id)}
  ELSE S.world

SeenAfter(S) ==
  IF ~CleanupLooks(S) THEN seenOff
  ELSE LET off == {id \in Inspected(S) : isOffScreen(S.variant, S.ball[id])}
       IN  [id \in off |-> IF id \in DOMAIN seenOff THEN seenOff[id]
                           ELSE S.now]

TimeLimit ==
  IF variant \in {"part002", "part011c"} THEN MaxTimeThrottled ELSE MaxTime

Tick ==
  /\ now + TickMs <= TimeLimit
  /\ now' = now + TickMs
  /\ UNCHANGED <<variant, ball, balls, world, currentBall, nextBallSize,
                 gameState, lastDropTime, nextSpawnTime, offScreenBalls,
                 lastCleanupTime, lastCurrentBallPosition, spawnTimeoutId,
                 dropAt, seenOff, engine, body, undisturbed, appVars>>

\* The sizes Math.random() is let draw for a new ball: those of
\* SizeChoices, and for the snapshot whose debug key zaps size 5 that size.
SpawnSizes ==
  IF variant = "part011c" THEN {1, TestSizePart011c} ELSE SizeChoices

SpawnBall ==
  \E r \in SpawnSizes :
    LET S == spawnBall(Cur, r)
    IN  /\ WithinBalls(S)
        /\ S # Cur
        /\ Commit(S)
        /\ UNCHANGED <<dropAt, seenOff, engine, body, undisturbed, appVars>>

DropCurrentBall ==
  /\ currentBall # NoBall
  /\ Commit(dropCurrentBall(Cur))
  /\ dropAt' = IF currentBall' = NoBall THEN now ELSE dropAt
  /\ UNCHANGED <<seenOff, engine, body, undisturbed, appVars>>

\* The held ball is walked at most MaxExcursion steps away from the spawn
\* column; SpecRail below walks it along the whole rail.
MoveExplored(S, newS) ==
  Abs(newS.ball[S.currentBall].x - SpawnX) <= MaxExcursion * MoveDistance

MoveCurrentBall ==
  /\ currentBall # NoBall
  /\ \E d \in {0 - 1, 1} :
       LET S == moveCurrentBall(Cur, d)
       IN  MoveExplored(Cur, S) /\ Commit(S)
  /\ UNCHANGED <<dropAt, seenOff, engine, body, undisturbed, appVars>>

\* part_014 has no frame driver among the sources: its solver step and its
\* cleanup are steps of their own.
EngineUpdate ==
  /\ variant = "part014"
  /\ DynamicIds(Cur) # {}
  /\ \E f \in [DynamicIds(Cur) -> SolverOutcomes] : Commit(engineUpdate(Cur, f))
  /\ UNCHANGED <<dropAt, seenOff, engine, body, undisturbed, appVars>>

Cleanup ==
  /\ variant = "part014"
  /\ Commit(cleanup(Cur))
  /\ seenOff' = SeenAfter(Cur)
  /\ <<balls, world, seenOff>> # <<balls, world, seenOff>>'
  /\ UNCHANGED <<dropAt, engine, body, undisturbed, appVars>>

SpawnTimeout ==
  /\ variant = "part014"
  /\ spawnTimeoutId # NoTimer
  /\ now >= spawnTimeoutId
  /\ \E r \in SizeChoices :
       LET S == spawnTimeout(Cur, r)
       IN  WithinBalls(S) /\ Commit(S)
  /\ UNCHANGED <<dropAt, seenOff, engine, body, undisturbed, appVars>>

CollisionStartWith(e) ==
  /\ variant = "part011b"
  /\ Commit(onCollisionStart(Cur, e))
  /\ UNCHANGED <<dropAt, seenOff, engine, body, undisturbed, appVars>>

CollisionStart ==
  /\ DynamicIds(Cur) # {}
  /\ \E e \in CollisionEvents(Cur) : CollisionStartWith(e)

GameUpdate ==
  /\ variant = "ballJs"
  /\ \E keys \in SUBSET {"left", "right"} :
     \E f \in [DynamicIds(Cur) -> SolverOutcomes] :
     \E r \in SizeChoices :
       LET S0 == applyKeys(Cur, keys)
           S1 == updateFrame(engineUpdate(S0, f), r)
           S == gameUpdate(Cur, keys, f, r)
       IN  /\ (currentBall # NoBall /\ keys # {}) => MoveExplored(Cur, S0)
           /\ WithinBalls(S)
           /\ Commit(S)
           /\ seenOff' = SeenAfter(S1)
  /\ UNCHANGED <<dropAt, engine, body, undisturbed, appVars>>

SceneUpdate ==
  /\ variant \in {"part002", "part011c", "part011b"}
  /\ \E f \in [DynamicIds(Cur) -> SolverOutcomes] :
     \E r \in SpawnSizes :
       LET S1 == spawnBall(engineUpdate(Cur, f), r)
           S == sceneUpdate(Cur, f, r)
       IN  /\ WithinBalls(S)
           /\ Commit(S)
           /\ seenOff' = SeenAfter(S1)
  /\ UNCHANGED <<dropAt, engine, body, undisturbed, appVars>>

\* The debug key is explored when it moves the held ball, once for a ball.
TestBalls ==
  /\ variant \in {"part002", "part011c"}
  /\ currentBall # NoBall
  /\ \E sizeZap \in (IF variant = "part002" THEN SizeChoices
                      ELSE {TestSizePart011c}) :
       /\ ball[currentBall].size = sizeZap
       /\ \A id \in world :
            ball[id].size = sizeZap => ball[id].x > 0 - MaxOffScreenDistance
       /\ Commit(testBalls(Cur, sizeZap))
  /\ UNCHANGED <<dropAt, seenOff, engine, body, undisturbed, appVars>>

Next ==
  \/ Tick
  \/ SpawnBall
  \/ DropCurrentBall
  \/ MoveCurrentBall
  \/ EngineUpdate
  \/ Cleanup
  \/ SpawnTimeout
  \/ CollisionStart
  \/ GameUpdate
  \/ SceneUpdate
  \/ TestBalls

Spec == Init /\ [][Next]_vars

\* ------------------------------------------------------------ the rail
\* The first ball is walked along the whole spawn rail, dropped, and a
\* second one is spawned; no solver step, the clock stops at MaxTimeRail.
TickRail ==
  /\ now + TickMs <= MaxTimeRail
  /\ now' = now + TickMs
  /\ UNCHANGED <<variant, ball, balls, world, currentBall, nextBallSize,
                 gameState, lastDropTime, nextSpawnTime, offScreenBalls,
                 lastCleanupTime, lastCurrentBallPosition, spawnTimeoutId,
                 dropAt, seenOff, engine, body, undisturbed, appVars>>

MoveAlongRail ==
  /\ currentBall # NoBall
  /\ \E d \in {0 - 1, 1} :
       LET S == moveCurrentBall(Cur, d)
       IN  /\ Len(ball) = 1 \/ MoveExplored(Cur, S)
           /\ Commit(S)
  /\ UNCHANGED <<dropAt, seenOff, engine, body, undisturbed, appVars>>

NextRail ==
  \/ TickRail
  \/ SpawnBall
  \/ MoveAlongRail
  \/ DropCurrentBall

SpecRail == Init /\ [][NextRail]_vars

\* ======================================================= physics engines
Engines == {"part004", "part006", "part011", "sceneJs"}
PhysBodies == {1, 2}
FrameDeltas == {4, 12, 33}
MaxStableFrames == 12

\* One velocity unit of the model is 1/1000 canvas unit per step.
Milli == 10 * 100

MinDelta == 8
MaxDelta == 16
TargetStepSize == 8
\* engine.world.gravity.y = 0.8, in tenths; frictionAir = 0.005, per mille.
GravityTenths == 8
FrictionAirPerMille == 5
WallThicknessEngine == 17
WallThicknessSceneJs == 16
MaxVelocity004 == 15
StableFramesToSleep == 10
EnforceWall004 == 17
EnforceWall006 == 17
Tolerance006 == 2
StackGap006 == 2
GroundGap006 == 5
WakeGap006 == 50
DampenAbove011 == 18
MaxVelocity011 == 20
\* Thresholds below one unit, in model units.
SleepThreshold004 == Milli \div 10
AngularSleep004 == Milli \div 100
MicroVelocity006 == 2 * (Milli \div 100)
MicroAngular006 == 2 * (Milli \div 100)
DampingVelocity006 == Milli \div 10
DampingAngular006 == 5 * (Milli \div 100)
StackSlow006 == 5 * (Milli \div 100)
StackDamp006 == 3 * (Milli \div 100)
StackStop006 == Milli \div 100
WakeSpeed006 == 5 * (Milli \div 10)
RestThreshold011 == Milli \div 100
JitterSpeedSceneJs == Milli \div 10
DriftSceneJs == 5 * (Milli \div 100)
SpinSceneJs == 5 * (Milli \div 100)

Sq(a) == a * a

RECURSIVE SqrtBetween(_, _, _)
SqrtBetween(n, lo, hi) ==
  IF lo >= hi THEN lo
  ELSE LET mid == (lo + hi + 1) \div 2
       IN  IF mid * mid <= n THEN SqrtBetween(n, mid, hi)
           ELSE SqrtBetween(n, lo, mid - 1)

\* Math.sqrt on the squares the model produces.
Sqrt(n) == SqrtBetween(n, 0, 46340)

\* v * num / den, rounded towards zero.
Times(v, num, den) ==
  IF v >= 0 THEN (v * num) \div den ELSE 0 - (((0 - v) * num) \div den)

SpeedSq(b) == Sq(b.vx) + Sq(b.vy)

DistSq(a, b) == Sq(a.x - b.x) + Sq(a.y - b.y)

AtRest(b) == b.vx = 0 /\ b.vy = 0 /\ b.av = 0

\* Matter.Body.setVelocity, Matter.Body.setAngularVelocity and
\* Matter.Sleeping.set as far as the wrappers read their effect back.
setVelocity(b, vx, vy) == [b EXCEPT !.vx = vx, !.vy = vy]

setAngularVelocity(b, av) == [b EXCEPT !.av = av]

SleepingSet(b, flag) == [b EXCEPT !.isSleeping = flag]

NewBody(size, x, y, static) ==
  [size |-> size, radius |-> calculateRadius("ballJs", size),
   x |-> x, y |-> y, vx |-> 0, vy |-> 0, av |-> 0,
   isStatic |-> static, isSleeping |-> FALSE,
   stableFrames |-> 0, hasLast |-> FALSE, lastX |-> 0, lastY |-> 0]

boundaryThickness(e) ==
  IF e = "sceneJs" THEN WallThicknessSceneJs ELSE WallThicknessEngine

\* ------------------------------------------------- Matter.Engine.update
\* What one solver step leaves in a body.  Contacts are solver results the
\* wrappers have to cope with: positions inside the walls and the floor,
\* speeds above and below every threshold the wrappers test.
Contacts ==
  {"launch", "leftGraze", "corner", "rightDeep", "floorGraze", "drift",
   "landing"}

ContactOutcome(name, e, b) ==
  LET left == boundaryThickness(e) + b.radius
      right == CanvasWidth - boundaryThickness(e) - b.radius
      floor == CanvasHeight - boundaryThickness(e) - b.radius
  IN  CASE name = "launch" ->
             [x |-> SpawnX, y |-> 300, vx |-> 18 * Milli, vy |-> 24 * Milli,
              av |-> 200]
        [] name = "leftGraze" ->
             [x |-> left - 1, y |-> 300, vx |-> 0 - 3 * Milli,
              vy |-> 4 * Milli, av |-> 0]
        [] name = "corner" ->
             [x |-> left - 3, y |-> floor + 3, vx |-> 0 - 30, vy |-> 40,
              av |-> 5]
        [] name = "rightDeep" ->
             [x |-> right + 3, y |-> 300, vx |-> 0, vy |-> 19 * Milli,
              av |-> 0]
        [] name = "floorGraze" ->
             [x |-> SpawnX, y |-> floor + 1, vx |-> 3, vy |-> 4, av |-> 5]
        [] name = "landing" ->
             [x |-> SpawnX + 40, y |-> floor - 20, vx |-> 0 - 600,
              vy |-> 2 * Milli, av |-> 0]
        [] OTHER ->
             [x |-> 400, y |-> floor, vx |-> 40, vy |-> 95, av |-> 40]

\* Velocity gained from gravity in one step of dt ms:
\* gravity.y * gravity.scale(0.001) * dt^2.
Gravity(dt) == (GravityTenths * dt * dt) \div 10

AirDrag(v) == Times(v, Milli - FrictionAirPerMille, Milli)

\* "none": static body, not integrated.  "asleep": sleeping body left
\* alone.  "gravity": a body lying at rest on the floor on which nothing but
\* gravity acts; the floor keeps its position, Body.update gives it the
\* velocity of one step of gravity.  "fall": a body that touches nothing;
\* Body.update gives it the velocity of one step of gravity and moves it
\* by its velocity (`sub` is the part of y below one unit, in 1/1000).
\* Otherwise the named contact result, which wakes the body.
solverStep(e, b, o, dt) ==
  CASE o \in {"none", "asleep"} -> b
    [] o = "fall" ->
         LET vy == AirDrag(b.vy) + Gravity(dt)
         IN  [setVelocity(b, AirDrag(b.vx), vy) EXCEPT
                !.y = b.y + (b.sub + vy) \div Milli,
                !.sub = (b.sub + vy) % Milli]
    [] o = "gravity" ->
         setVelocity(b, AirDrag(b.vx), AirDrag(b.vy) + Gravity(dt))
    [] OTHER ->
         LET c == ContactOutcome(o, e, b)
         IN  [b EXCEPT !.x = c.x, !.y = c.y, !.vx = c.vx, !.vy = c.vy,
                       !.av = c.av, !.isSleeping = FALSE]

engineStep(e, B, o, dt) ==
  [id \in DOMAIN B |-> solverStep(e, B[id], o[id], dt)]

\* The body lies on the floor (or has been pushed into it).
OnFloor(e, b) == b.y >= CanvasHeight - boundaryThickness(e) - b.radius

StepChoices(e, b) ==
  IF b.isStatic THEN {"none"}
  ELSE IF b.isSleeping /\ e \in {"part004", "part006"}
       THEN {"asleep"} \cup Contacts
       ELSE Contacts \cup (IF AtRest(b) /\ OnFloor(e, b) THEN {"gravity"}
                           ELSE {})

NextStepChoices(o) ==
  IF o \in {"none", "asleep", "gravity"} THEN {o} ELSE Contacts

AllChoices == {"none", "asleep", "gravity"} \cup Contacts

clampDelta(dt) == Min(Max(dt, MinDelta), MaxDelta)

subSteps(dt) == (clampDelta(dt) + TargetStepSize - 1) \div TargetStepSize

actualStepSize(dt) == clampDelta(dt) \div subSteps(dt)

\* ------------------------------------------------------------- part_004
enforceBoundaries004(b) ==
  LET w == EnforceWall004
      hitLeft == b.x - b.radius < w
      x1 == IF hitLeft THEN w + b.radius ELSE b.x
      hitRight == x1 + b.radius > CanvasWidth - w
      x2 == IF hitRight THEN CanvasWidth - w - b.radius ELSE x1
      hitGround == b.y + b.radius > CanvasHeight - w
      y1 == IF hitGround THEN CanvasHeight - w - b.radius ELSE b.y
  IN  IF hitLeft \/ hitRight \/ hitGround
      THEN [b EXCEPT !.x = x2, !.y = y1,
                     !.vx = Times(b.vx, 5, 10), !.vy = Times(b.vy, 5, 10)]
      ELSE b

\* The forEach body of stabilizePhysics for one non-static body.
stabilizeBody004(b) ==
  LET speedSq == SpeedSq(b)
      b1 == IF speedSq > Sq(MaxVelocity004 * Milli)
            THEN setVelocity(b,
                   Times(b.vx, MaxVelocity004 * Milli, Sqrt(speedSq)),
                   Times(b.vy, MaxVelocity004 * Milli, Sqrt(speedSq)))
            ELSE b
      slow == /\ speedSq < Sq(SleepThreshold004)
              /\ Abs(b.av) < AngularSleep004
      \* positionDelta < 0.05, positions being whole units
      stable == Sq(20 * (b1.x - b1.lastX)) + Sq(20 * (b1.y - b1.lastY)) < 1
      n == IF stable THEN b1.stableFrames + 1 ELSE 0
      b2 == [b1 EXCEPT !.stableFrames = n, !.lastX = b1.x, !.lastY = b1.y]
      b3 == IF ~slow THEN [b1 EXCEPT !.stableFrames = 0]
            ELSE IF ~b1.hasLast
                 THEN [b1 EXCEPT !.hasLast = TRUE, !.lastX = b1.x,
                                 !.lastY = b1.y, !.stableFrames = 0]
            ELSE IF stable /\ n > StableFramesToSleep
                 THEN setAngularVelocity(
                        setVelocity(SleepingSet(b2, TRUE), 0, 0), 0)
            ELSE b2
  IN  enforceBoundaries004(b3)

stabilizePhysics(B) ==
  [id \in DOMAIN B |-> IF B[id].isStatic THEN B[id]
                       ELSE stabilizeBody004(B[id])]

update004(B, dt, o) ==
  stabilizePhysics(engineStep("part004", B, o, clampDelta(dt)))

\* ------------------------------------------------------------- part_006
enforceBody006NoFloor(b) ==
  LET w == EnforceWall006
      hitLeft == b.x - b.radius < w - Tolerance006
      hitRight == b.x + b.radius > CanvasWidth - w + Tolerance006
      newX == IF hitRight THEN CanvasWidth - w - b.radius
              ELSE IF hitLeft THEN w + b.radius ELSE b.x
      b1 == [b EXCEPT !.x = newX,
                      !.vx = Times(b.vx, 5, 10), !.vy = Times(b.vy, 5, 10)]
  IN  IF ~(hitLeft \/ hitRight) THEN b
      ELSE IF SpeedSq(b1) < Sq(Milli \div 10) THEN SleepingSet(b1, TRUE)
      ELSE b1

\* The forEach body of enforceBoundaries for one non-static ball.  vel
\* aliases body.velocity, so the sleep test reads the halved velocity.
enforceBody006(b) ==
  LET w == EnforceWall006
      hitLeft == b.x - b.radius < w - Tolerance006
      hitRight == b.x + b.radius > CanvasWidth - w + Tolerance006
      hitFloor == b.y + b.radius > CanvasHeight - w + Tolerance006
      newX == IF hitRight THEN CanvasWidth - w - b.radius
              ELSE IF hitLeft THEN w + b.radius ELSE b.x
      newY == IF hitFloor THEN CanvasHeight - w - b.radius ELSE b.y
      b1 == [b EXCEPT !.x = newX, !.y = newY,
                      !.vx = Times(b.vx, 5, 10), !.vy = Times(b.vy, 5, 10)]
  IN  IF ~(hitLeft \/ hitRight \/ hitFloor) THEN b
      ELSE IF SpeedSq(b1) < Sq(Milli \div 10) THEN SleepingSet(b1, TRUE)
      ELSE b1

enforceBoundaries006(B) ==
  [id \in DOMAIN B |-> IF B[id].isStatic THEN B[id]
                       ELSE enforceBody006(B[id])]

stabilizeStackedBalls(B, id, b) ==
  LET speedSq == SpeedSq(b)
      hasContact ==
        \/ \E j \in DOMAIN B \ {id} :
             /\ ~B[j].isStatic
             /\ DistSq(b, B[j]) < Sq(b.radius + B[j].radius + StackGap006)
        \/ b.y > CanvasHeight - EnforceWall006 - b.radius - GroundGap006
      damped == setVelocity(b, Times(b.vx, 7, 10), Times(b.vy, 7, 10))
  IN  IF speedSq < Sq(StackSlow006) /\ hasContact
         /\ speedSq < Sq(StackDamp006)
      THEN IF speedSq < Sq(StackStop006)
           THEN SleepingSet(
                  setAngularVelocity(setVelocity(damped, 0, 0), 0), TRUE)
           ELSE damped
      ELSE b

\* The forEach body of stabilizeBodies for one non-static ball.  The
\* angular damping reads the angular velocity captured at the top.
stabilizeBody006(B, id) ==
  LET b == B[id]
      speedSq == SpeedSq(b)
      b1 == IF /\ speedSq < Sq(MicroVelocity006)
               /\ Abs(b.av) < MicroAngular006
            THEN SleepingSet(
                   setAngularVelocity(setVelocity(b, 0, 0), 0), TRUE)
            ELSE IF speedSq < Sq(DampingVelocity006)
                 THEN setVelocity(b, Times(b.vx, 85, 100),
                                  Times(b.vy, 85, 100))
            ELSE b
      b2 == IF Abs(b.av) < DampingAngular006
            THEN setAngularVelocity(b1, Times(b.av, 8, 10))
            ELSE b1
  IN  stabilizeStackedBalls(B, id, b2)

stabilizeBodies(B) ==
  [id \in DOMAIN B |-> IF B[id].isStatic THEN B[id]
                       ELSE stabilizeBody006(B, id)]

\* The same with the test of Matter's own collision wake-up: the balls
\* touch.
wakeIfTouched(B, id) ==
  IF /\ ~B[id].isStatic
     /\ B[id].isSleeping
     /\ \E j \in DOMAIN B \ {id} :
          /\ ~B[j].isStatic
          /\ ~B[j].isSleeping
          /\ DistSq(B[id], B[j]) < Sq(B[id].radius + B[j].radius)
          /\ SpeedSq(B[j]) > Sq(WakeSpeed006)
  THEN [B EXCEPT ![id] = SleepingSet(B[id], FALSE)]
  ELSE B

\* The body of the outer forEach of manageSleepingBodies for one body.
wakeIfApproached(B, id) ==
  IF /\ ~B[id].isStatic
     /\ B[id].isSleeping
     /\ \E j \in DOMAIN B \ {id} :
          /\ ~B[j].isStatic
          /\ ~B[j].isSleeping
          /\ DistSq(B[id], B[j]) < Sq(B[id].radius + B[j].radius + WakeGap006)
          /\ SpeedSq(B[j]) > Sq(WakeSpeed006)
  THEN [B EXCEPT ![id] = SleepingSet(B[id], FALSE)]
  ELSE B

RECURSIVE manageFrom(_, _)
manageFrom(B, id) ==
  IF id \notin DOMAIN B THEN B
  ELSE manageFrom(wakeIfApproached(B, id), id + 1)

manageSleepingBodies(B) == manageFrom(B, 1)

update006(B, dt, o) ==
  manageSleepingBodies(
    stabilizeBodies(
      enforceBoundaries006(engineStep("part006", B, o, clampDelta(dt)))))

\* ------------------------------------------------------------- part_011
\* The afterUpdate handler, for one body.
dampenBody011(b) ==
  IF SpeedSq(b) > Sq(DampenAbove011 * Milli)
  THEN setVelocity(b, Times(b.vx, 9, 10), Times(b.vy, 9, 10))
  ELSE b

handleMassImbalancedCollisions(B) ==
  [id \in DOMAIN B |-> IF B[id].isStatic THEN B[id]
                       ELSE dampenBody011(B[id])]

clampBody011RestOnly(b) ==
  LET vsq == SpeedSq(b)
      b1 == IF vsq > 0 /\ vsq < Sq(RestThreshold011)
            THEN setVelocity(b, 0, 0) ELSE b
  IN  IF /\ Abs(b.av) > 0
         /\ Abs(b.av) < RestThreshold011
         /\ vsq < Sq(RestThreshold011)
      THEN setAngularVelocity(b1, 0)
      ELSE b1

\* The forEach body of clampVelocities for one non-static ball.
clampBody011(b) ==
  LET vsq == SpeedSq(b)
      b1 == IF vsq > 0 /\ vsq < Sq(RestThreshold011)
            THEN setVelocity(b, 0, 0) ELSE b
  IN  IF /\ Abs(b.av) > 0
         /\ Abs(b.av) < RestThreshold011
         /\ vsq < Sq(RestThreshold011)
      THEN setAngularVelocity(b1, 0)
      ELSE IF vsq > Sq(MaxVelocity011 * Milli)
           THEN setVelocity(b1,
                  Times(b1.vx, MaxVelocity011 * Milli, Sqrt(vsq)),
                  Times(b1.vy, MaxVelocity011 * Milli, Sqrt(vsq)))
      ELSE b1

clampVelocities(B) ==
  [id \in DOMAIN B |-> IF B[id].isStatic THEN B[id]
                       ELSE clampBody011(B[id])]

\* Matter.Engine.update of part_011 with its afterUpdate handler.
engineUpdate011(B, o, dt) ==
  handleMassImbalancedCollisions(engineStep("part011", B, o, dt))

update011(B, dt, o1, o2) ==
  LET B1 == engineUpdate011(B, o1, actualStepSize(dt))
      B2 == IF subSteps(dt) > 1
            THEN engineUpdate011(B1, o2, actualStepSize(dt)) ELSE B1
  IN  clampVelocities(B2)

\* ------------------------------------------------------------- scene.js
\* The forEach body of stopJittering for one non-static ball.
stopJitteringBody(b) ==
  LET b1 == IF SpeedSq(b) < Sq(JitterSpeedSceneJs)
            THEN setVelocity(b, 0, 0) ELSE b
      b2 == IF Abs(b1.vx) < DriftSceneJs THEN setVelocity(b1, 0, b1.vy)
            ELSE b1
  IN  IF Abs(b2.av) < SpinSceneJs THEN setAngularVelocity(b2, 0) ELSE b2

stopJittering(B) ==
  [id \in DOMAIN B |-> IF B[id].isStatic THEN B[id]
                       ELSE stopJitteringBody(B[id])]

\* SceneManager.updateFrame of scene.js.
sceneManagerUpdateFrame(B, dt, o1, o2) ==
  LET B1 == stopJittering(engineStep("sceneJs", B, o1, actualStepSize(dt)))
  IN  IF subSteps(dt) > 1
      THEN stopJittering(engineStep("sceneJs", B1, o2, actualStepSize(dt)))
      ELSE B1

\* ------------------------------------------------------ physics behaviours
\* A small ball lies on the floor, a large one is at the spawn point, held
\* or just released.
InitPhys ==
  /\ variant = "ballJs"
  /\ nextBallSize = 1
  /\ ManagerConstructed
  /\ engine \in Engines
  /\ \E held \in BOOLEAN :
       body = [id \in PhysBodies |->
                 IF id = 1
                 THEN NewBody(1, SpawnX,
                              CanvasHeight - boundaryThickness(engine)
                                 - calculateRadius("ballJs", 1), FALSE)
                 ELSE NewBody(5, SpawnX, SpawnY, held)]
  /\ undisturbed = {}
  /\ AppIdle

ValidFirst(o) == \A id \in PhysBodies : o[id] \in StepChoices(engine, body[id])

ValidSecond(dt, o1, o2) ==
  \A id \in PhysBodies :
    IF subSteps(dt) > 1 THEN o2[id] \in NextStepChoices(o1[id])
    ELSE o2[id] = o1[id]

Undisturbed(o) == {id \in PhysBodies : o[id] = "gravity"}

UpdatePart004 ==
  /\ engine = "part004"
  /\ \E dt \in FrameDeltas : \E o \in [PhysBodies -> AllChoices] :
       /\ ValidFirst(o)
       /\ body' = update004(body, dt, o)
       /\ undisturbed' = Undisturbed(o)
  /\ \A id \in PhysBodies : body'[id].stableFrames <= MaxStableFrames
  /\ UNCHANGED <<mgrVars, engine, appVars>>

UpdatePart006 ==
  /\ engine = "part006"
  /\ \E dt \in FrameDeltas : \E o \in [PhysBodies -> AllChoices] :
       /\ ValidFirst(o)
       /\ body' = update006(body, dt, o)
       /\ undisturbed' = Undisturbed(o)
  /\ UNCHANGED <<mgrVars, engine, appVars>>

UpdatePart011 ==
  /\ engine = "part011"
  /\ \E dt \in FrameDeltas :
     \E o1 \in [PhysBodies -> AllChoices] :
     \E o2 \in [PhysBodies -> AllChoices] :
       /\ ValidFirst(o1)
       /\ ValidSecond(dt, o1, o2)
       /\ body' = update011(body, dt, o1, o2)
       /\ undisturbed' = Undisturbed(o1)
  /\ UNCHANGED <<mgrVars, engine, appVars>>

UpdateSceneJs ==
  /\ engine = "sceneJs"
  /\ \E dt \in FrameDeltas :
     \E o1 \in [PhysBodies -> AllChoices] :
     \E o2 \in [PhysBodies -> AllChoices] :
       /\ ValidFirst(o1)
       /\ ValidSecond(dt, o1, o2)
       /\ body' = sceneManagerUpdateFrame(body, dt, o1, o2)
       /\ undisturbed' = Undisturbed(o1)
  /\ UNCHANGED <<mgrVars, engine, appVars>>

NextPhys ==
  \/ UpdatePart004
  \/ UpdatePart006
  \/ UpdatePart011
  \/ UpdateSceneJs

SpecPhys == InitPhys /\ [][NextPhys]_vars

\* ------------------------------------------------------ free fall
\* The one ball of the world has just been released at the spawn point
\* (Ball.release: not static, no velocity) and falls; nothing touches it.
\* Time is counted in `now`.
MaxFallTime == 40

FallingBody == NewBody(5, SpawnX, SpawnY, FALSE) @@ [sub |-> 0]

InitFall ==
  /\ variant = "ballJs"
  /\ nextBallSize = 1
  /\ ManagerConstructed
  /\ engine \in Engines
  /\ body = <<FallingBody>>
  /\ undisturbed = {}
  /\ AppIdle

\* One frame: update() of the engine, every solver step being free fall.
FallFrame ==
  /\ now < MaxFallTime
  /\ body[1].y + body[1].radius < CanvasHeight - WallThicknessEngine
  /\ \E dt \in FrameDeltas :
       /\ now' = now + dt
       /\ body' = CASE engine = "part004" -> update004(body, dt, <<"fall">>)
                    [] engine = "part006" -> update006(body, dt, <<"fall">>)
                    [] engine = "part011" ->
                         update011(body, dt, <<"fall">>, <<"fall">>)
                    [] OTHER ->
                         sceneManagerUpdateFrame(body, dt, <<"fall">>,
                                                 <<"fall">>)
  /\ UNCHANGED <<variant, ball, balls, world, currentBall, nextBallSize,
                 gameState, lastDropTime, nextSpawnTime, offScreenBalls,
                 lastCleanupTime, lastCurrentBallPosition, spawnTimeoutId,
                 dropAt, seenOff, engine, undisturbed, appVars>>

NextFall == FallFrame

SpecFall == InitFall /\ [][NextFall]_vars

\* ================================================= behaviours of the rest
\* The manager and the physics bodies of the specifications above are not
\* constructed in the behaviours below.
CoreIdle ==
  /\ variant = "ballJs"
  /\ nextBallSize = 1
  /\ ManagerConstructed
  /\ engine = "none"
  /\ body = << >>
  /\ undisturbed = {}

coreVars == <<mgrVars, physVars>>

\* ------------------------------------- part_011: straight vertical drops
\* A ball of the BallManager of part_011:496 is released over the
\* PhysicsEngine of part_011:2.  faller is its body: x and radius in canvas
\* units, velocities in 1/1000 unit; `first` is the boundary of its first
\* contact, `timers` the setTimeout callbacks of the collisionStart handler
\* that have not run yet, `turn` tells that the task-queue turn after the
\* first contact has passed.  The height of the fall is not tracked: the
\* floor contact may begin in any step after the release.  verticalDrop
\* and verticalDropXCoordinate are the fields of its Ball, `inWorld` tells
\* that Ball.destroy() has not removed the body from the world.
MaxFallFrames == 3

VerticalFloor011 == Milli
VerticalRatio011 == 10
CleanupThreshold011 == Milli \div 1000
SpinBias011 == 8 * (Milli \div 10)
UnwantedDrift011 == Milli \div 10
FallerSize == 3

\* What the solver leaves of the horizontal and of the angular velocity
\* when it resolves a contact: nothing, the threshold of the cleanup, and
\* values above it on either side.
SolverSlop == {0, 1, 2, 300, 0 - 300}
SolverSpin == {0, 2, 0 - 40}

Boundaries == {"ground", "leftWall"}

\* moveCurrentBall of part_011:548-552 stops the held ball at
\* wallThickness(16) + radius, setupBoundaries builds walls 17 thick.
RailLimit011 == WallThicknessPart011 + calculateRadius("part011b", FallerSize)

OverlapsLeftWall(f) == f.x - f.radius < WallThicknessEngine

ReleasedFaller(x) ==
  [x |-> x, radius |-> calculateRadius("part011b", FallerSize),
   vx |-> 0, vy |-> 0, av |-> 0, isStatic |-> FALSE,
   verticalDrop |-> TRUE, verticalDropXCoordinate |-> x, inWorld |-> TRUE,
   first |-> "none", timers |-> << >>, turn |-> FALSE, frames |-> 0]

\* The collisionStart handler for one pair of the ball with `label`.
collisionStart011(f, label) ==
  IF label = "ground"
  THEN LET isVerticalCollision ==
             VerticalRatio011 * Abs(f.vx) <
                Max(VerticalRatio011 * VerticalFloor011, Abs(f.vy))
           g == IF isVerticalCollision THEN setVelocity(f, 0, f.vy) ELSE f
       IN  [g EXCEPT !.timers =
                       Append(@, [isVerticalCollision |-> isVerticalCollision])]
  ELSE f

\* The callback of setTimeout(..., 1).  `velocity` and `postVelocity` are
\* both the body's velocity object, which Matter updates in place, so the
\* "pre-collision" speed it reads is the resolved one.
postCollisionCleanup(f, t) ==
  LET postAngularVel == f.av
      preHorizontalSpeed == Abs(f.vx)
      postHorizontalSpeed == Abs(f.vx)
      f1 == IF t.isVerticalCollision /\ Abs(f.vx) > CleanupThreshold011
            THEN setVelocity(f, 0, f.vy) ELSE f
      f2 == IF t.isVerticalCollision /\ Abs(postAngularVel) > CleanupThreshold011
            THEN setAngularVelocity(f1, 0) ELSE f1
      shouldCancelSpin ==
        \/ preHorizontalSpeed < CleanupThreshold011
        \/ preHorizontalSpeed < SpinBias011
      f3 == IF Abs(postAngularVel) > CleanupThreshold011 /\ shouldCancelSpin
            THEN setAngularVelocity(f2, 0) ELSE f2
  IN  IF /\ preHorizontalSpeed < CleanupThreshold011
         /\ postHorizontalSpeed > UnwantedDrift011
      THEN setVelocity(f3, 0, f3.vy)
      ELSE f3

RECURSIVE runTimers(_)
runTimers(f) ==
  IF f.timers = << >> THEN f
  ELSE runTimers(postCollisionCleanup([f EXCEPT !.timers = Tail(@)],
                                      Head(f.timers)))

\* One Matter.Engine.update of dt ms: the body is integrated, the contacts
\* that begin are announced (collisionStart), the solver resolves them and
\* afterUpdate runs.  c is the boundary whose contact begins ("none": the
\* ball is still in the air), slop and spin are what the solver leaves.
fallerStep(f, dt, c, slop, spin) ==
  LET f0 == setVelocity(f, AirDrag(f.vx), AirDrag(f.vy) + Gravity(dt))
      f1 == collisionStart011(f0, c)
      f2 == CASE c = "ground" ->
                   [f1 EXCEPT !.vx = f1.vx + slop,
                              !.vy = Times(f1.vy, 0 - 7, 10), !.av = spin]
              [] c = "leftWall" ->
                   [f1 EXCEPT !.vx = slop, !.av = spin,
                              !.x = WallThicknessEngine + f1.radius]
              [] OTHER -> f1
  IN  dampenBody011([f2 EXCEPT !.first = IF @ = "none" THEN c ELSE @])

\* The boundaries whose contact can begin in the next step.
BeginChoices(f) ==
  IF f.first # "none" THEN {"none"}
  ELSE IF OverlapsLeftWall(f) THEN {"leftWall"}
  ELSE {"none", "ground"}

\* PhysicsEngine.update(deltaTime) of part_011 for the released ball.
updateFaller(f, dt, c1, s1, c2, s2) ==
  LET a == fallerStep(f, actualStepSize(dt), c1, s1.slop, s1.spin)
      b == IF subSteps(dt) > 1
           THEN fallerStep(a, actualStepSize(dt), c2, s2.slop, s2.spin)
           ELSE a
  IN  [clampBody011(b) EXCEPT !.frames = @ + 1]

\* BallManager.updateBallStates of part_011:571: its body is commented out.
updateBallStates011(f) == f

\* Ball.destroy(): sceneManager.removeBody(body).
destroyBall011(f) == [f EXCEPT !.inWorld = FALSE]

SolverResults == [slop : SolverSlop, spin : SolverSpin]
NoResult == [slop |-> 0, spin |-> 0]

dropFrame ==
  <<coreVars, physics, factory, input, scenes, loop, contact, game,
    respawn>>

InitDrop ==
  /\ CoreIdle
  /\ loop = NotConstructed
  /\ contact = NotConstructed
  /\ game = NotConstructed
  /\ respawn = NotConstructed
  /\ scenes = NotConstructed
  /\ input = NotConstructed
  /\ physics = NotConstructed
  /\ factory = NotConstructed
  /\ \E x \in {SpawnX, RailLimit011} : faller = ReleasedFaller(x)

\* A frame: update() runs while no contact has begun yet, then
\* BallManager.updateFrame().
UpdateFaller ==
  /\ faller.first = "none"
  /\ faller.inWorld
  /\ faller.frames < MaxFallFrames
  /\ \E dt \in FrameDeltas :
     \E c1 \in BeginChoices(faller) :
     \E s1 \in (IF c1 = "none" THEN {NoResult} ELSE SolverResults) :
       LET mid == fallerStep(faller, actualStepSize(dt), c1, s1.slop, s1.spin)
       IN  \E c2 \in (IF subSteps(dt) > 1 THEN BeginChoices(mid)
                      ELSE {"none"}) :
           \E s2 \in (IF c2 = "none" THEN {NoResult} ELSE SolverResults) :
             faller' =
               updateBallStates011(updateFaller(faller, dt, c1, s1, c2, s2))
  /\ UNCHANGED dropFrame

\* The task-queue turn after the frame of the first contact: the timers
\* that are due run.
TimerTurn ==
  /\ faller.first # "none"
  /\ ~faller.turn
  /\ faller' = [runTimers(faller) EXCEPT !.turn = TRUE]
  /\ UNCHANGED dropFrame

\* The ball is destroyed after the frame of its first contact, before the
\* timers of that contact have run.
DestroyFaller ==
  /\ faller.inWorld
  /\ faller.timers # << >>
  /\ ~faller.turn
  /\ faller' = destroyBall011(faller)
  /\ UNCHANGED dropFrame

NextDrop ==
  \/ UpdateFaller
  \/ TimerTurn
  \/ DestroyFaller

SpecDrop == InitDrop /\ [][NextDrop]_vars

\* ------------------------------------------ part_000: the Planck wrapper
\* physics is one PhysicsEngine: `world` is its planck.World (NoWorld:
\* null), `eventHandlers` its Map from event type to the array of
\* callbacks.  The other fields record what the calls did: `made` counts
\* the worlds create() has built, `steps` and `stepped` the world.step
\* calls and the duration of the last one, `updates` and `asked` the
\* update() calls and the argument of the last one, `destroyed` that destroy() has released a world, `registered`
\* and `invoked` the array a dispatch found and the callbacks it called,
\* `error` whether the last call threw.
\* factory is the class PhysicsBodyFactory with its static fields `world`
\* and `idCounter`; `bodies` are the bodies it has created, `calls` counts
\* the create calls and `last` is what the last of them did.
MaxWorlds == 2
MaxCreateCalls == 3

NoWorld == 0
EventTypes == {"collisionStart", "collisionEnd"}

NewPhysicsEngine ==
  [world |-> NoWorld, eventHandlers |-> << >>, made |-> 0, steps |-> 0,
   stepped |-> 0, asked |-> 0, updates |-> 0, destroyed |-> FALSE, dispatched |-> "none",
   registered |-> << >>, invoked |-> << >>, error |-> FALSE]

NewFactory ==
  [world |-> NoWorld, idCounter |-> 1, bodies |-> << >>, calls |-> 0,
   last |-> "none"]

\* PhysicsEngine.create(): a new world replaces whatever was there.
create(P) == [P EXCEPT !.world = P.made + 1, !.made = @ + 1,
                       !.error = FALSE]

setWorld(F, w) == [F EXCEPT !.world = w]

generateId(F) == [F EXCEPT !.idCounter = @ + 1]

\* options.label || 'rectangle', options.label || 'circle'.
LabelOr(label, default) == IF label = "" THEN default ELSE label

NewFactoryBody(F, shape, label, static) ==
  [id |-> F.idCounter, label |-> label, shape |-> shape,
   isStatic |-> static, world |-> F.world]

createRectangleSilent(F, label, static) ==
  IF F.world = NoWorld
  THEN [F EXCEPT !.calls = @ + 1, !.last = "nothing"]
  ELSE [generateId(F) EXCEPT
          !.bodies = Append(@, NewFactoryBody(F, "box",
                                  LabelOr(label, "rectangle"), static)),
          !.calls = @ + 1, !.last = "body"]

createRectangle(F, label, static) ==
  IF F.world = NoWorld
  THEN [F EXCEPT !.calls = @ + 1, !.last = "threw"]
  ELSE [generateId(F) EXCEPT
          !.bodies = Append(@, NewFactoryBody(F, "box",
                                  LabelOr(label, "rectangle"), static)),
          !.calls = @ + 1, !.last = "body"]

createCircle(F, label, static) ==
  IF F.world = NoWorld
  THEN [F EXCEPT !.calls = @ + 1, !.last = "threw"]
  ELSE [generateId(F) EXCEPT
          !.bodies = Append(@, NewFactoryBody(F, "circle",
                                  LabelOr(label, "circle"), static)),
          !.calls = @ + 1, !.last = "body"]

\* SceneBallsX.setupBoundaries: ground and the two walls; the labels are
\* passed inside options.userData, which the factory does not read.
setupBoundaries(F) ==
  createRectangle(createRectangle(createRectangle(F, "", TRUE), "", TRUE),
                  "", TRUE)

LabelChoices == {"", "ball"}

InitFactory ==
  /\ CoreIdle
  /\ loop = NotConstructed
  /\ contact = NotConstructed
  /\ game = NotConstructed
  /\ respawn = NotConstructed
  /\ scenes = NotConstructed
  /\ input = NotConstructed
  /\ faller = NotConstructed
  /\ physics = NewPhysicsEngine
  /\ factory = NewFactory

factoryFrame ==
  <<coreVars, faller, input, scenes, loop, contact, game,
    respawn>>

\* new PhysicsEngine().create() of a scene constructor.
CreateWorld ==
  /\ physics.made < MaxWorlds
  /\ physics' = create(physics)
  /\ UNCHANGED <<factory, factoryFrame>>

SetWorld ==
  /\ factory.world # physics.world
  /\ factory' = setWorld(factory, physics.world)
  /\ UNCHANGED <<physics, factoryFrame>>

CreateRectangle ==
  /\ factory.calls < MaxCreateCalls
  /\ \E label \in LabelChoices : \E static \in BOOLEAN :
       factory' = createRectangle(factory, label, static)
  /\ UNCHANGED <<physics, factoryFrame>>

CreateCircle ==
  /\ factory.calls < MaxCreateCalls
  /\ \E label \in LabelChoices : \E static \in BOOLEAN :
       factory' = createCircle(factory, label, static)
  /\ UNCHANGED <<physics, factoryFrame>>

\* The rest of the constructor of SceneBallsX after create(): setWorld,
\* then setupBoundaries.
SceneSetup ==
  /\ physics.world # NoWorld
  /\ factory.calls = 0
  /\ factory' = setupBoundaries(setWorld(factory, physics.world))
  /\ UNCHANGED <<physics, factoryFrame>>

NextFactory ==
  \/ CreateWorld
  \/ SetWorld
  \/ CreateRectangle
  \/ CreateCircle
  \/ SceneSetup

SpecFactory == InitFactory /\ [][NextFactory]_vars

\* ------------------------------------- part_000: events, update, destroy
MaxHandlers == 2
MaxUpdates == 2

\* Durations are in 1/120 s: world.step(1/60, 8, 3).
FixedTimeStep000 == 2
StepArguments == {1, 2, 4}

\* The callbacks a client registers: 1 only takes the event, 2 takes it and
\* unregisters itself (a one-shot listener), 3 takes it and registers
\* callback 1 for the same event type.
Callbacks == {1, 2, 3}

has(P, eventType) == eventType \in DOMAIN P.eventHandlers

on(P, eventType, callback) ==
  LET handlers == IF has(P, eventType) THEN P.eventHandlers[eventType]
                  ELSE << >>
  IN  [P EXCEPT !.eventHandlers =
         [t \in DOMAIN P.eventHandlers \cup {eventType} |->
            IF t = eventType THEN Append(handlers, callback)
            ELSE P.eventHandlers[t]]]

\* handlers.indexOf(callback), 0 when absent.
RECURSIVE indexOfFrom(_, _, _)
indexOfFrom(handlers, callback, k) ==
  IF k > Len(handlers) THEN 0
  ELSE IF handlers[k] = callback THEN k
  ELSE indexOfFrom(handlers, callback, k + 1)

indexOf(handlers, callback) == indexOfFrom(handlers, callback, 1)

\* handlers.splice(index, 1)
splice(handlers, index) ==
  [k \in 1..(Len(handlers) - 1) |->
     IF k < index THEN handlers[k] ELSE handlers[k + 1]]

off(P, eventType, callback) ==
  IF has(P, eventType)
  THEN LET handlers == P.eventHandlers[eventType]
           index == indexOf(handlers, callback)
       IN  IF index > 0
           THEN [P EXCEPT !.eventHandlers[eventType] = splice(handlers, index)]
           ELSE P
  ELSE P

\* handler(event) for the callbacks above.
callHandler(P, eventType, callback) ==
  LET Q == [P EXCEPT !.invoked = Append(@, <<eventType, callback>>)]
  IN  CASE callback = 2 -> off(Q, eventType, callback)
        [] callback = 3 -> on(Q, eventType, 1)
        [] OTHER -> Q

\* handlers.forEach(...): the indices below the length the array had when
\* the loop began are visited in order, an index the array no longer has is
\* passed over, and the callback gets the element that is at the index when
\* it is reached.
RECURSIVE forEachHandler(_, _, _, _)
forEachHandler(P, eventType, k, len) ==
  IF k > len THEN P
  ELSE IF k > Len(P.eventHandlers[eventType])
       THEN forEachHandler(P, eventType, k + 1, len)
       ELSE forEachHandler(
              callHandler(P, eventType, P.eventHandlers[eventType][k]),
              eventType, k + 1, len)

handleContactEvent(P, eventType) ==
  IF has(P, eventType)
  THEN LET handlers == P.eventHandlers[eventType]
       IN  forEachHandler([P EXCEPT !.dispatched = eventType,
                                    !.registered = handlers,
                                    !.invoked = << >>],
                          eventType, 1, Len(handlers))
  ELSE P

RECURSIVE contactEvents(_, _)
contactEvents(P, events) ==
  IF events = << >> THEN P
  ELSE contactEvents(handleContactEvent(P, Head(events)), Tail(events))

\* world.step of planck: the world advances by dt and reports the contacts
\* that begin and end to the listeners create() has installed.
step(P, dt, events) ==
  contactEvents([P EXCEPT !.steps = @ + 1, !.stepped = dt], events)

updateUsesArgument(P, deltaTime, events) ==
  LET Q == [P EXCEPT !.asked = deltaTime, !.updates = @ + 1,
                     !.error = FALSE]
  IN  IF Q.world # NoWorld THEN step(Q, deltaTime, events) ELSE Q

update(P, deltaTime, events) ==
  LET Q == [P EXCEPT !.asked = deltaTime, !.updates = @ + 1,
                     !.error = FALSE]
  IN  IF Q.world # NoWorld THEN step(Q, FixedTimeStep000, events) ELSE Q

destroy(P) ==
  IF P.world # NoWorld
  THEN [P EXCEPT !.eventHandlers = << >>, !.world = NoWorld,
                 !.destroyed = TRUE, !.error = FALSE]
  ELSE [P EXCEPT !.error = FALSE]

EventChoices == {<< >>} \cup {<<t>> : t \in EventTypes}

WithinHandlers(P) ==
  \A t \in DOMAIN P.eventHandlers : Len(P.eventHandlers[t]) <= MaxHandlers

InitWorld ==
  /\ CoreIdle
  /\ loop = NotConstructed
  /\ contact = NotConstructed
  /\ game = NotConstructed
  /\ respawn = NotConstructed
  /\ scenes = NotConstructed
  /\ input = NotConstructed
  /\ faller = NotConstructed
  /\ factory = NotConstructed
  /\ physics = NewPhysicsEngine

worldFrame ==
  <<coreVars, faller, factory, input, scenes, loop, contact, game,
    respawn>>

Create ==
  /\ physics.made < MaxWorlds
  /\ physics' = create(physics)
  /\ UNCHANGED worldFrame

On ==
  /\ \E t \in EventTypes : \E c \in Callbacks :
       /\ physics' = on(physics, t, c)
       /\ WithinHandlers(physics')
  /\ UNCHANGED worldFrame

\* The scenes register callbacks that only take the event.
OnPlain ==
  /\ \E t \in EventTypes :
       /\ physics' = on(physics, t, 1)
       /\ WithinHandlers(physics')
  /\ UNCHANGED worldFrame

Off ==
  /\ \E t \in EventTypes : \E c \in Callbacks :
       /\ physics' = off(physics, t, c)
       /\ physics' # physics
  /\ UNCHANGED worldFrame

Update ==
  /\ physics.updates < MaxUpdates
  /\ \E dt \in StepArguments : \E events \in EventChoices :
       /\ physics.world = NoWorld => events = << >>
       /\ physics' = update(physics, dt, events)
       /\ WithinHandlers(physics')
  /\ UNCHANGED worldFrame

Destroy ==
  /\ physics' = destroy(physics)
  /\ UNCHANGED worldFrame

\* The life of one engine: created, stepped, destroyed.
NextWorld ==
  \/ Create
  \/ OnPlain
  \/ Update
  \/ Destroy

SpecWorld == InitWorld /\ [][NextWorld]_vars

\* The listeners of a created engine: the frame loop steps the world by the
\* fixed step and a contact begins or ends in the step.
InitEvents ==
  /\ CoreIdle
  /\ loop = NotConstructed
  /\ contact = NotConstructed
  /\ game = NotConstructed
  /\ respawn = NotConstructed
  /\ scenes = NotConstructed
  /\ input = NotConstructed
  /\ faller = NotConstructed
  /\ factory = NotConstructed
  /\ physics = create(NewPhysicsEngine)

Contact ==
  /\ physics.updates < MaxUpdates
  /\ \E t \in EventTypes :
       /\ physics' = update(physics, FixedTimeStep000, <<t>>)
       /\ WithinHandlers(physics')
  /\ UNCHANGED worldFrame

NextEvents ==
  \/ On
  \/ Off
  \/ Contact

SpecEvents == InitEvents /\ [][NextEvents]_vars

\* -------------------------------------------------- the input handlers
\* input is one InputHandler: of src/js/input.js ("inputJs": keys and
\* keyPressed.drop) or of part_009:117 ("part009": keyState per key code
\* and gamepadState).  `held` are the controls that are physically down,
\* `polled` tells that pollGamepad has seen the present press of button A.
\* `moved` tells that the last getInput() moved the ball.  `fired` counts, for the present (or last) press of every drop control,
\* the drop intents its events have raised; `done` is that count for the
\* last press that has ended (NotPressed before the first).
MaxInputEvents == 5

InputVariants == {"inputJs", "part009"}
DropKeys == {"Space", "ArrowDown"}
KeyCodes == DropKeys \cup {"ArrowLeft"}
ButtonA == "ButtonA"
DropControls == DropKeys \cup {ButtonA}
NotPressed == 0 - 1

NewInputHandler(v) ==
  [variant |-> v, keysLeft |-> FALSE, keysDrop |-> FALSE,
   keyPressedDrop |-> FALSE, keyState |-> {}, gamepadSpace |-> FALSE,
   held |-> {}, polled |-> FALSE, events |-> 0, drops |-> 0,
   moved |-> FALSE,
   fired |-> [c \in DropControls |-> 0],
   done |-> [c \in DropControls |-> NotPressed]]

\* dropBall() of input.js, sceneManager.inputKeyPressed(code) with a drop
\* code of part_009: the drop intent, raised by an event of `control`.
dropIntent(I, control) ==
  [I EXCEPT !.drops = @ + 1, !.fired[control] = @ + 1]

handleKeyDown(I, code) ==
  IF I.variant = "inputJs"
  THEN CASE code = "ArrowLeft" -> [I EXCEPT !.keysLeft = TRUE]
         [] OTHER ->
              LET J == [I EXCEPT !.keysDrop = TRUE]
              IN  IF ~J.keyPressedDrop
                  THEN dropIntent([J EXCEPT !.keyPressedDrop = TRUE], code)
                  ELSE J
  ELSE CASE code = "ArrowLeft" -> [I EXCEPT !.keyState = @ \cup {code}]
         [] OTHER ->
              IF code \notin I.keyState
              THEN dropIntent([I EXCEPT !.keyState = @ \cup {code}], code)
              ELSE I

handleKeyUp(I, code) ==
  IF I.variant = "inputJs"
  THEN CASE code = "ArrowLeft" -> [I EXCEPT !.keysLeft = FALSE]
         [] OTHER -> [I EXCEPT !.keysDrop = FALSE,
                               !.keyPressedDrop = FALSE]
  ELSE [I EXCEPT !.keyState = @ \ {code}]

\* pollGamepad of part_009 with button 0 pressed or not.
pollGamepad(I, pressed) ==
  IF pressed
  THEN IF ~I.gamepadSpace
       THEN [dropIntent(I, ButtonA) EXCEPT !.gamepadSpace = TRUE]
       ELSE I
  ELSE [I EXCEPT !.gamepadSpace = FALSE]

\* getInput(): the continuous moves, then (part_009) the gamepad.
getInput(I) ==
  IF I.variant = "inputJs"
  THEN [I EXCEPT !.moved = I.keysLeft]
  ELSE LET J == [I EXCEPT !.moved = "ArrowLeft" \in I.keyState]
       IN  [pollGamepad(J, ButtonA \in J.held) EXCEPT
              !.polled = @ \/ ButtonA \in J.held]

Counted(I) == [I EXCEPT !.events = @ + 1]

InitInput ==
  /\ CoreIdle
  /\ loop = NotConstructed
  /\ contact = NotConstructed
  /\ game = NotConstructed
  /\ respawn = NotConstructed
  /\ scenes = NotConstructed
  /\ faller = NotConstructed
  /\ physics = NotConstructed
  /\ factory = NotConstructed
  /\ \E v \in InputVariants : input = NewInputHandler(v)

inputFrame ==
  <<coreVars, faller, physics, factory, scenes, loop, contact, game,
    respawn>>

\* A key goes down: the browser sends keydown.
PressKey ==
  /\ input.events < MaxInputEvents
  /\ \E code \in KeyCodes \ input.held :
       LET I == IF code \in DropKeys
                THEN [input EXCEPT !.held = @ \cup {code}, !.fired[code] = 0]
                ELSE [input EXCEPT !.held = @ \cup {code}]
       IN  input' = Counted(handleKeyDown(I, code))
  /\ UNCHANGED inputFrame

\* A key stays down: the browser repeats keydown.
RepeatKey ==
  /\ input.events < MaxInputEvents
  /\ \E code \in KeyCodes \cap input.held :
       input' = Counted(handleKeyDown(input, code))
  /\ UNCHANGED inputFrame

ReleaseKey ==
  /\ \E code \in KeyCodes \cap input.held :
       LET I == handleKeyUp(input, code)
       IN  input' = IF code \in DropKeys
                    THEN [I EXCEPT !.held = @ \ {code},
                                   !.done[code] = I.fired[code]]
                    ELSE [I EXCEPT !.held = @ \ {code}]
  /\ UNCHANGED inputFrame

\* Button A of the gamepad goes down and up again.  A press and a pause
\* between two presses last longer than a frame: every one is polled at
\* least once.
PressButton ==
  /\ input.variant = "part009"
  /\ ButtonA \notin input.held
  /\ ~input.gamepadSpace
  /\ input.events < MaxInputEvents
  /\ input' = Counted([input EXCEPT !.held = @ \cup {ButtonA},
                                    !.fired[ButtonA] = 0,
                                    !.polled = FALSE])
  /\ UNCHANGED inputFrame

ReleaseButton ==
  /\ ButtonA \in input.held
  /\ input.polled
  /\ input' = [input EXCEPT !.held = @ \ {ButtonA},
                            !.done[ButtonA] = input.fired[ButtonA]]
  /\ UNCHANGED inputFrame

\* A frame: getInput().
GetInput ==
  /\ input.events < MaxInputEvents
  /\ input' = Counted(getInput(input))
  /\ UNCHANGED inputFrame

NextInput ==
  \/ PressKey
  \/ RepeatKey
  \/ ReleaseKey
  \/ PressButton
  \/ ReleaseButton
  \/ GetInput

SpecInput == InitInput /\ [][NextInput]_vars

\* -------------------------------------------------- the scene manager
\* scenes is the SceneManager of src/js/screenmanager.js with the scenes it
\* constructs once in its constructor; ballManager is the BallManager that
\* the SceneBallsX constructor creates (the record the BallManager
\* operators above work on), now is performance.now().
MaxSceneTime == 12500
SceneTickMs == 2500
DisplayDuration == 5000
DefaultDialogOption == 1
SettingsOptions == 4
SettingsBack == 3

SceneCodes == {"Enter", "Escape", "ArrowDown", "ArrowLeft", "ArrowRight"}
MenuOptions == {0, 1, 2}

NewBallManager(t) ==
  [variant |-> "part002", now |-> t, ball |-> << >>, balls |-> << >>,
   world |-> {}, currentBall |-> NoBall, nextBallSize |-> 1,
   gameState |-> "ready", lastDropTime |-> 0, nextSpawnTime |-> 0,
   offScreenBalls |-> << >>, lastCleanupTime |-> 0,
   lastCurrentBallPosition |-> CanvasWidth \div 2,
   spawnTimeoutId |-> NoTimer]

NewSceneManager(t) ==
  [currentSceneKey |-> "splash", startTime |-> t, hasTransitioned |-> FALSE,
   settingsOption |-> 0,
   showExitDialog |-> FALSE, exitToMenu |-> FALSE,
   dialogSelectedOption |-> DefaultDialogOption,
   ballManager |-> NewBallManager(t)]

\* enter() of SceneSplash restarts its timer; enter() and exit() of the
\* other scenes are empty.
setCurrentScene(M, sceneKey) ==
  LET M1 == [M EXCEPT !.currentSceneKey = sceneKey]
  IN  CASE sceneKey = "splash" ->
             [M1 EXCEPT !.startTime = M.ballManager.now,
                        !.hasTransitioned = FALSE]
        [] OTHER -> M1

\* SceneBallsX.inputKeyPressed.
ballsXInputKeyPressed(M, code) ==
  IF M.showExitDialog
  THEN CASE code = "ArrowLeft" ->
              [M EXCEPT !.dialogSelectedOption = (@ - 1 + 2) % 2]
         [] code = "ArrowRight" ->
              [M EXCEPT !.dialogSelectedOption = (@ + 1) % 2]
         [] code = "Enter" ->
              [M EXCEPT !.exitToMenu = @ \/ M.dialogSelectedOption = 0,
                        !.showExitDialog = FALSE,
                        !.dialogSelectedOption = DefaultDialogOption]
         [] code = "Escape" ->
              [M EXCEPT !.showExitDialog = FALSE,
                        !.dialogSelectedOption = DefaultDialogOption]
         [] OTHER -> M
  ELSE CASE code = "ArrowLeft" ->
              [M EXCEPT !.ballManager = moveCurrentBall(@, 0 - 1)]
         [] code = "ArrowRight" ->
              [M EXCEPT !.ballManager = moveCurrentBall(@, 1)]
         [] code = "ArrowDown" ->
              [M EXCEPT !.ballManager = dropCurrentBall(@)]
         [] code = "Escape" ->
              [M EXCEPT !.showExitDialog = TRUE,
                        !.dialogSelectedOption = DefaultDialogOption]
         [] OTHER -> M

\* SceneManager.inputKeyPressed; option is the selectedOption of the menu
\* scene at the time of the key.
inputKeyPressed(M, code, option) ==
  CASE M.currentSceneKey = "menu" ->
         IF code = "Enter" /\ option = 0 THEN setCurrentScene(M, "ballsX")
         ELSE IF code = "Enter" /\ option = 1
              THEN setCurrentScene(M, "settings")
         ELSE M
    [] M.currentSceneKey = "ballsX" -> ballsXInputKeyPressed(M, code)
    [] M.currentSceneKey = "settings" ->
         CASE code = "Escape" -> setCurrentScene(M, "menu")
           [] code = "Enter" /\ M.settingsOption = SettingsBack ->
                setCurrentScene(M, "menu")
           [] code = "ArrowDown" ->
                [M EXCEPT !.settingsOption = (@ + 1) % SettingsOptions]
           [] OTHER -> M
    [] OTHER -> M

\* SceneManager.update(dt): the update of the current scene and the
\* transition it asks for.
sceneManagerUpdate(M, f, r) ==
  CASE M.currentSceneKey = "splash" ->
         IF /\ M.startTime # 0
            /\ M.ballManager.now - M.startTime >= DisplayDuration
            /\ ~M.hasTransitioned
         THEN setCurrentScene([M EXCEPT !.hasTransitioned = TRUE], "menu")
         ELSE M
    [] M.currentSceneKey = "ballsX" ->
         LET M1 == [M EXCEPT !.ballManager = sceneUpdate(@, f, r)]
         IN  IF M.exitToMenu
             THEN setCurrentScene([M1 EXCEPT !.exitToMenu = FALSE], "menu")
             ELSE M1
    [] OTHER -> M

InitScenes ==
  /\ CoreIdle
  /\ loop = NotConstructed
  /\ contact = NotConstructed
  /\ game = NotConstructed
  /\ respawn = NotConstructed
  /\ faller = NotConstructed
  /\ physics = NotConstructed
  /\ factory = NotConstructed
  /\ input = NotConstructed
  /\ scenes = NewSceneManager(SceneTickMs)

scenesFrame ==
  <<coreVars, faller, physics, factory, input, loop, contact, game,
    respawn>>

SceneTick ==
  /\ scenes.ballManager.now + SceneTickMs <= MaxSceneTime
  /\ scenes' = [scenes EXCEPT !.ballManager.now = @ + SceneTickMs]
  /\ UNCHANGED scenesFrame

InputKeyPressed ==
  /\ \E code \in SceneCodes, option \in MenuOptions :
       LET M == inputKeyPressed(scenes, code, option)
           S == scenes.ballManager
       IN  /\ M # scenes
           /\ (M.ballManager.ball # S.ball /\ S.currentBall # NoBall)
                 => MoveExplored(S, M.ballManager)
           /\ scenes' = M
  /\ UNCHANGED scenesFrame

SceneManagerUpdate ==
  /\ \E f \in [DynamicIds(scenes.ballManager) -> SolverOutcomes] :
     \E r \in SizeChoices :
       LET M == sceneManagerUpdate(scenes, f, r)
       IN  /\ WithinBalls(M.ballManager)
           /\ scenes' = M
  /\ UNCHANGED scenesFrame

NextScenes ==
  \/ SceneTick
  \/ InputKeyPressed
  \/ SceneManagerUpdate

SpecScenes == InitScenes /\ [][NextScenes]_vars

\* ------------------------------------------------------ the frame loop
\* loop is one game loop with the frame driver of its snapshot: "mainJs"
\* (SceneBallsX.updateFrame of src/js/main.js), "screenManager"
\* (SceneManager.updateFrame of src/js/screenmanager.js with the game scene
\* current), "part003" (Game.update of part_003 with the SceneManager.update
\* of part_011:296) or "sceneJs" (SceneManager.updateFrame of src/js/scene.js).
\* log lists what was done for the present frame, in order: the drop
\* intents the key handlers applied since the last frame returned, then the
\* calls of the frame.  Durations are in thirds of a millisecond.
MaxFrames == 3
MaxPendingDrops == 1

FixedTimeStep == 50
ThirdsPerMs == 3
LoopDeltas == {0, 4, 12, 17, 33, 40}
Drivers == {"mainJs", "screenManager", "part003", "sceneJs"}
AccumulatorDrivers == {"mainJs", "screenManager"}

Done(what) == [op |-> what, dt |-> 0]
Stepped(dt) == [op |-> "step", dt |-> dt]

NewLoop(d) ==
  [driver |-> d, accumulator |-> 0, stepCount |-> 0, elapsed |-> 0,
   frames |-> 0, leftHeld |-> FALSE, pending |-> << >>, log |-> << >>,
   before |-> 0, delta |-> 0, stepsInFrame |-> 0]

Logged(L, e) == [L EXCEPT !.log = Append(@, e)]

\* inputHandler.getInput(): the continuous move intent of a held key.
getInputLogged(L) ==
  LET L1 == Logged(L, Done("input"))
  IN  IF L.leftHeld THEN Logged(L1, Done("move")) ELSE L1

\* while (this._physicsAccumulator >= fixedTimeStep) { ... }
RECURSIVE whileAccumulated(_)
whileAccumulated(L) ==
  IF L.accumulator >= FixedTimeStep
  THEN whileAccumulated(
         [Logged(L, Stepped(FixedTimeStep)) EXCEPT
            !.accumulator = @ - FixedTimeStep,
            !.stepCount = @ + 1,
            !.stepsInFrame = @ + 1])
  ELSE L

updatePhysicsSingleStep(L, deltaTime) ==
  LET L1 == [L EXCEPT !.accumulator = @ + deltaTime]
  IN  IF L1.accumulator >= FixedTimeStep
      THEN [Logged(L1, Stepped(FixedTimeStep)) EXCEPT
              !.accumulator = @ - FixedTimeStep,
              !.stepCount = @ + 1,
              !.stepsInFrame = @ + 1]
      ELSE L1

updatePhysics(L, deltaTime) ==
  whileAccumulated([L EXCEPT !.accumulator = @ + deltaTime])

\* for (let i = 0; i < steps; i++) Matter.Engine.update(engine, actualStepSize)
RECURSIVE engineSteps(_, _, _)
engineSteps(L, n, dt) ==
  IF n = 0 THEN L
  ELSE engineSteps([Logged(L, Stepped(dt)) EXCEPT !.stepCount = @ + 1,
                                                  !.stepsInFrame = @ + 1],
                   n - 1, dt)

\* SceneManager.update(deltaTime) of part_011:296 and updateFrame(deltaTime)
\* of scene.js:473: the sub-steps, then renderScene().
sceneManagerFrame(L, ms) ==
  Logged(engineSteps(L, subSteps(ms), ThirdsPerMs * actualStepSize(ms)),
         Done("render"))

\* The frame begins: the clock is read, the log starts with the intents
\* applied since the last frame.
BeginFrame(L, ms) ==
  [L EXCEPT !.log = L.pending, !.pending = << >>,
            !.before = L.accumulator, !.delta = ThirdsPerMs * ms,
            !.stepsInFrame = 0,
            !.elapsed = @ + ThirdsPerMs * ms,
            !.frames = @ + 1]

\* SceneBallsX.updateFrame of main.js.
updateFrameMainJs(L, ms) ==
  LET L1 == getInputLogged(BeginFrame(L, ms))
      L2 == updatePhysics(L1, ThirdsPerMs * ms)
  IN  Logged(Logged(L2, Done("spawn")), Done("render"))

\* SceneManager.updateFrame of screenmanager.js: getInput, the update of
\* the game scene (updatePhysics, ballManager.updateFrame), render.
updateFrameScreenManager(L, ms) ==
  LET L1 == getInputLogged(BeginFrame(L, ms))
      L2 == updatePhysics(L1, ThirdsPerMs * ms)
  IN  Logged(Logged(L2, Done("spawn")), Done("render"))

\* Game.update of part_003.
gameUpdateLogged(L, ms) ==
  LET L1 == getInputLogged(BeginFrame(L, ms))
      L2 == sceneManagerFrame(L1, ms)
  IN  Logged(Logged(L2, Done("spawn")), Done("cleanup"))

\* SceneManager.updateFrame of scene.js.
updateFrameSceneJs(L, ms) == sceneManagerFrame(BeginFrame(L, ms), ms)

InitLoop ==
  /\ CoreIdle
  /\ contact = NotConstructed
  /\ game = NotConstructed
  /\ respawn = NotConstructed
  /\ faller = NotConstructed
  /\ physics = NotConstructed
  /\ factory = NotConstructed
  /\ input = NotConstructed
  /\ scenes = NotConstructed
  /\ \E d \in Drivers : loop = NewLoop(d)

loopFrame ==
  <<coreVars, faller, physics, factory, input, scenes, contact, game,
    respawn>>

\* keydown of Space or ArrowDown between two frames: dropCurrentBall().
KeyDownDrop ==
  /\ loop.driver # "sceneJs"
  /\ Len(loop.pending) < MaxPendingDrops
  /\ loop.frames < MaxFrames
  /\ loop' = [loop EXCEPT !.pending = Append(@, Done("drop"))]
  /\ UNCHANGED loopFrame

\* keydown or keyup of ArrowLeft between two frames.
KeyLeft ==
  /\ loop.driver # "sceneJs"
  /\ loop.frames < MaxFrames
  /\ loop' = [loop EXCEPT !.leftHeld = ~@]
  /\ UNCHANGED loopFrame

FrameMainJs ==
  /\ loop.driver = "mainJs"
  /\ loop.frames < MaxFrames
  /\ \E ms \in LoopDeltas : loop' = updateFrameMainJs(loop, ms)
  /\ UNCHANGED loopFrame

FrameScreenManager ==
  /\ loop.driver = "screenManager"
  /\ loop.frames < MaxFrames
  /\ \E ms \in LoopDeltas : loop' = updateFrameScreenManager(loop, ms)
  /\ UNCHANGED loopFrame

FramePart003 ==
  /\ loop.driver = "part003"
  /\ loop.frames < MaxFrames
  /\ \E ms \in LoopDeltas : loop' = gameUpdateLogged(loop, ms)
  /\ UNCHANGED loopFrame

FrameSceneJs ==
  /\ loop.driver = "sceneJs"
  /\ loop.frames < MaxFrames
  /\ \E ms \in LoopDeltas : loop' = updateFrameSceneJs(loop, ms)
  /\ UNCHANGED loopFrame

NextLoop ==
  \/ KeyDownDrop
  \/ KeyLeft
  \/ FrameMainJs
  \/ FrameScreenManager
  \/ FramePart003
  \/ FrameSceneJs

SpecLoop == InitLoop /\ [][NextLoop]_vars

\* ------------------------------------- part_011: one contact start event
\* contact is one pair of a collisionStart event of the PhysicsEngine of
\* part_011:2: the label of the body the ball meets, the ball's velocity
\* before the handler ran (pre) and the ball as the handler leaves it.
\* Velocities are in 1/1000 unit.
ContactLabels == {"ground", "leftWall", "rightWall"}
ContactVx ==
  {0, 1, 500, 999, Milli, 1001, 1500, 2 * Milli, 3 * Milli,
   0 - 999, 0 - 1500, 0 - 3 * Milli}
ContactVy ==
  {0, 5 * Milli, 15 * Milli, 20 * Milli, 30 * Milli, 0 - 20 * Milli}

NewContact(label, vx, vy) ==
  [label |-> label, handled |-> FALSE, pre |-> [vx |-> vx, vy |-> vy],
   ball |-> [vx |-> vx, vy |-> vy, av |-> 0, timers |-> << >>]]

InitContact ==
  /\ CoreIdle
  /\ faller = NotConstructed
  /\ physics = NotConstructed
  /\ factory = NotConstructed
  /\ input = NotConstructed
  /\ scenes = NotConstructed
  /\ loop = NotConstructed
  /\ game = NotConstructed
  /\ respawn = NotConstructed
  /\ \E label \in ContactLabels, vx \in ContactVx, vy \in ContactVy :
       contact = NewContact(label, vx, vy)

contactFrame ==
  <<coreVars, faller, physics, factory, input, scenes, loop, game,
    respawn>>

\* The collisionStart listener runs for the pair.
ContactStart ==
  /\ ~contact.handled
  /\ contact' = [contact EXCEPT
                   !.handled = TRUE,
                   !.ball = collisionStart011(@, contact.label)]
  /\ UNCHANGED contactFrame

NextContact == ContactStart

SpecContact == InitContact /\ [][NextContact]_vars

\* ------------------------------- screenmanager.js: timer driven respawn
\* respawn is the BallManager of screenmanager.js:351 with the timers it
\* has set: `held` tells that currentBall is not null, `balls` is the
\* length of this.balls, `moving` that some ball of the list is not at
\* rest (isAtRest, line 341), `timers` the due times of the pending
\* setTimeout callbacks, `dropAt` the time of the last drop, `last` the
\* call made last.
MaxRespawnTime == 4000
MaxRespawnBalls == 3
MaxRespawnTimers == 2
RespawnTickMs == 500
RespawnDelay == 2000
RecheckDelay == 500

NewRespawn ==
  [now |-> 0, held |-> FALSE, balls |-> 0, moving |-> FALSE,
   timers |-> << >>, dropAt |-> NoDrop, last |-> "constructor"]

spawnBallTimerDriven(r) ==
  IF r.held THEN r
  ELSE [r EXCEPT !.held = TRUE, !.balls = @ + 1]

dropCurrentBallTimerDriven(r) ==
  IF r.held
  THEN [r EXCEPT !.held = FALSE, !.dropAt = r.now,
                 !.timers = Append(@, r.now + RespawnDelay)]
  ELSE r

WithoutTimer(timers, i) ==
  [k \in 1..(Len(timers) - 1) |-> IF k < i THEN timers[k] ELSE timers[k + 1]]

\* The callback of timer i runs.
checkForNextSpawn(r, i) ==
  LET r1 == [r EXCEPT !.timers = WithoutTimer(@, i)]
      allAtRest == ~r.moving
  IN  IF allAtRest /\ ~r.held THEN spawnBallTimerDriven(r1)
      ELSE [r1 EXCEPT !.timers = Append(@, r.now + RecheckDelay)]

InitRespawn ==
  /\ CoreIdle
  /\ faller = NotConstructed
  /\ physics = NotConstructed
  /\ factory = NotConstructed
  /\ input = NotConstructed
  /\ scenes = NotConstructed
  /\ loop = NotConstructed
  /\ contact = NotConstructed
  /\ game = NotConstructed
  /\ respawn = NewRespawn

respawnFrame ==
  <<coreVars, faller, physics, factory, input, scenes, loop, contact, game>>

RespawnTick ==
  /\ respawn.now + RespawnTickMs <= MaxRespawnTime
  /\ respawn' = [respawn EXCEPT !.now = @ + RespawnTickMs, !.last = "clock"]
  /\ UNCHANGED respawnFrame

\* Matter.Engine.update: the balls of the list move or have come to rest.
RespawnEngineUpdate ==
  /\ respawn.balls > 0
  /\ \E m \in BOOLEAN :
       /\ m # respawn.moving
       /\ respawn' = [respawn EXCEPT !.moving = m, !.last = "engine"]
  /\ UNCHANGED respawnFrame

RespawnSpawnBall ==
  /\ respawn.balls < MaxRespawnBalls
  /\ respawn' = [spawnBallTimerDriven(respawn) EXCEPT !.last = "spawnBall"]
  /\ UNCHANGED respawnFrame

RespawnDropCurrentBall ==
  /\ respawn.held
  /\ Len(respawn.timers) < MaxRespawnTimers
  /\ respawn' = [dropCurrentBallTimerDriven(respawn) EXCEPT
                   !.last = "dropCurrentBall"]
  /\ UNCHANGED respawnFrame

RespawnTimeout ==
  /\ respawn.balls < MaxRespawnBalls
  /\ \E i \in 1..Len(respawn.timers) :
       /\ respawn.timers[i] <= respawn.now
       /\ respawn' = [checkForNextSpawn(respawn, i) EXCEPT
                        !.last = "checkForNextSpawn"]
  /\ UNCHANGED respawnFrame

NextRespawn ==
  \/ RespawnTick
  \/ RespawnEngineUpdate
  \/ RespawnSpawnBall
  \/ RespawnDropCurrentBall
  \/ RespawnTimeout

SpecRespawn == InitRespawn /\ [][NextRespawn]_vars

\* --------------------------------------- main.js: start, stop, gameLoop
\* game is the Game of main.js:7 (part_003:8) or the Main of part_005:
\* `pending` counts the requestAnimationFrame callbacks that have been
\* requested and have not run, `processed` the frames the callbacks of the
\* last display refresh processed, `refreshes` the display refreshes so
\* far, `threw` tells that the last call ended in a TypeError.
MaxChains == 3
MaxRefreshes == 3
GameDrivers == {"mainJs", "part003", "part005"}

NewGame(d) ==
  [driver |-> d, running |-> FALSE, pending |-> 0, processed |-> 0,
   refreshes |-> 0, threw |-> FALSE]

\* gameLoop(): one frame and the request of the next, or nothing.
gameLoop(g) ==
  IF ~g.running THEN g
  ELSE [g EXCEPT !.processed = @ + 1, !.pending = @ + 1]

start(g) ==
  IF g.running THEN [g EXCEPT !.threw = FALSE]
  ELSE gameLoop([g EXCEPT !.running = TRUE, !.threw = FALSE,
                          !.processed = 0])

\* Main.stop of part_005 reads this.sceneManager, which Main never sets.
stop(g) ==
  [g EXCEPT !.running = FALSE, !.threw = (g.driver = "part005")]

RECURSIVE runCallbacks(_, _)
runCallbacks(g, k) ==
  IF k = 0 THEN g ELSE runCallbacks(gameLoop(g), k - 1)

\* A display refresh runs the callbacks requested before it.
animationFrame(g) ==
  runCallbacks([g EXCEPT !.pending = 0, !.processed = 0,
                         !.refreshes = @ + 1, !.threw = FALSE],
               g.pending)

InitGame ==
  /\ CoreIdle
  /\ faller = NotConstructed
  /\ physics = NotConstructed
  /\ factory = NotConstructed
  /\ input = NotConstructed
  /\ scenes = NotConstructed
  /\ loop = NotConstructed
  /\ contact = NotConstructed
  /\ respawn = NotConstructed
  /\ \E d \in GameDrivers : game = NewGame(d)

gameFrame ==
  <<coreVars, faller, physics, factory, input, scenes, loop, contact,
    respawn>>

Start ==
  /\ game.pending < MaxChains
  /\ game' = start(game)
  /\ UNCHANGED gameFrame

Stop ==
  /\ game' = stop(game)
  /\ UNCHANGED gameFrame

AnimationFrame ==
  /\ game.pending > 0
  /\ game.refreshes < MaxRefreshes
  /\ game' = animationFrame(game)
  /\ UNCHANGED gameFrame

NextGame ==
  \/ Start
  \/ Stop
  \/ AnimationFrame

SpecGame == InitGame /\ [][NextGame]_vars

\* =============================================================== claims
Ids == 1..Len(ball)

HeldBall == ball[currentBall]

\* The delay after a drop before the next spawn, per snapshot.
SpawnDelay ==
  CASE variant = "ballJs" -> SpawnDelayBallJs
    [] variant = "part002" -> SpawnDelayPart002
    [] variant = "part011c" -> SpawnDelayPart011c
    [] variant = "part011b" -> SpawnDelayPart011b
    [] OTHER -> SpawnDelayPart014

CooldownPending == dropAt # NoDrop /\ now - dropAt < SpawnDelay

\* A call left the balls, the held ball and the size queue as they were.
SpawnRefused(S) ==
  /\ S.ball = ball
  /\ S.balls = balls
  /\ S.currentBall = currentBall
  /\ S.nextBallSize = nextBallSize
  /\ S.gameState = gameState

\* Every way spawnBall is reached: called directly, from the per-frame
\* update, and from the spawn timer when one is due.
EverySpawnCallRefused ==
  \A r \in SizeChoices :
    /\ SpawnRefused(spawnBall(Cur, r))
    /\ SpawnRefused(updateFrame(Cur, r))
    /\ (spawnTimeoutId # NoTimer /\ now >= spawnTimeoutId)
          => SpawnRefused(spawnTimeout(Cur, r))

\* C1: at any moment currentBall refers to at most one ball, that ball is
\* the static (held) one, and no other ball of the balls list has a static
\* body.
C1_OnlyHeldBallIsStatic ==
  /\ currentBall \in {NoBall} \cup Ids
  /\ currentBall # NoBall => HeldBall.isStatic
  /\ \A id \in Inspected(Cur) : ball[id].isStatic => id = currentBall

\* A ball is held while an earlier, dropped ball is still in the list.
C1_Witness ==
  /\ currentBall # NoBall
  /\ \E id \in Inspected(Cur) : id # currentBall /\ ~ball[id].isStatic

C3_DropReleasesAtRest ==
  [][ /\ currentBall = NoBall => dropCurrentBall(Cur) = Cur
      /\ DropCurrentBall =>
           /\ currentBall' = NoBall
           /\ ball'[currentBall].vx = 0
           /\ ball'[currentBall].vy = 0
           /\ ball'[currentBall].av = 0
           /\ ~ball'[currentBall].isStatic ]_vars

\* A ball has just been dropped and has not been stepped by the solver yet.
C3_Witness ==
  /\ currentBall = NoBall
  /\ dropAt = now
  /\ \E id \in Ids : /\ ~ball[id].isStatic
                     /\ ball[id].y = SpawnY
                     /\ ball[id].vx = 0 /\ ball[id].vy = 0

RECURSIVE moveTimes(_, _, _)
moveTimes(S, direction, n) ==
  IF n = 0 THEN S
  ELSE moveTimes(moveCurrentBall(S, direction), direction, n - 1)

HeldOnRail ==
  currentBall # NoBall =>
    /\ HeldBall.x >= wallThickness(variant) + HeldBall.radius
    /\ HeldBall.x <= CanvasWidth - wallThickness(variant) - HeldBall.radius

\* C4: the held ball's x stays within
\* [wallThickness + radius, width - wallThickness - radius] after spawnBall
\* and after every moveCurrentBall(+1/-1); a call changes x by at most 5 and
\* leaves y alone (20 moves to the left from x = 512 with radius 35 end at
\* x = 412); no other ball is moved by the call.
C4_HeldBallStaysOnRail ==
  [][ /\ HeldOnRail'
      /\ (currentBall # NoBall /\ HeldBall.x = 512 /\ HeldBall.radius = 35)
            => moveTimes(Cur, 0 - 1, 20).ball[currentBall].x = 412
      /\ MoveAlongRail =>
           /\ Abs(ball'[currentBall].x - HeldBall.x) <= MoveDistance
           /\ ball'[currentBall].y = HeldBall.y
           /\ Len(ball') = Len(ball)
           /\ \A id \in Ids \ {currentBall} : ball'[id] = ball[id] ]_vars

\* The held ball has been walked to the left stop of the rail.
C4_Witness ==
  /\ currentBall # NoBall
  /\ HeldBall.radius = 35
  /\ HeldBall.x = wallThickness(variant) + HeldBall.radius

DestroyedOnlyAfterGrace ==
  \A id \in world :
    id \notin world' =>
      /\ id \in DOMAIN seenOff
      /\ now' - seenOff[id] > GracePeriod
      /\ isOffScreen(variant, ball'[id])

C6_OverdueBallDestroyedByFrame ==
  [][\A id \in DOMAIN seenOff :
       ( /\ variant \in {"ballJs", "part011b"}
         /\ InList(Cur, id)
         /\ now - seenOff[id] > GracePeriod
         /\ isOffScreen(variant, ball'[id])
         /\ (GameUpdate \/ SceneUpdate) )
       => /\ id \notin world'
          /\ \A i \in 1..Len(balls') : balls'[i] # id
          /\ id \notin DOMAIN offScreenBalls']_vars

\* C7: when the collisionStart handler returns, both balls of every pair
\* whose two bodies are labelled 'ball' have verticalDrop = false, in either
\* order of the pair and for any number of pairs in the event.
C7_BallBallContactClearsVerticalDrop ==
  [][\A e \in CollisionEvents(Cur) :
       CollisionStartWith(e) =>
         \A i \in 1..Len(e) :
           (IsBallBody(e[i][1]) /\ IsBallBody(e[i][2])) =>
              /\ ~ball'[e[i][1]].verticalDrop
              /\ ~ball'[e[i][2]].verticalDrop]_vars

\* Two balls have touched: neither is in its vertical drop any more.
C7_Witness ==
  /\ variant = "part011b"
  /\ Len(ball) >= 2
  /\ \A id \in Ids : ~ball[id].verticalDrop

Dynamic == {id \in DOMAIN body : ~body[id].isStatic}

WithinField(b, w, slack) ==
  /\ b.x >= w + b.radius - slack
  /\ b.x <= CanvasWidth - w - b.radius + slack
  /\ b.y <= CanvasHeight - w - b.radius + slack

\* C8 as stated: after any update() every dynamic ball has
\* wallThickness + radius <= x <= width - wallThickness - radius and
\* y <= height - wallThickness - radius, whatever the solver produced.
C8_NoPenetrationSurvives ==
  /\ engine = "part004" =>
       \A id \in Dynamic : WithinField(body[id], EnforceWall004, 0)
  /\ engine = "part006" =>
       \A id \in Dynamic : WithinField(body[id], EnforceWall006, 0)

\* C8 as the code has it: part_004 clamps exactly; part_006 corrects a ball
\* only when it is more than its tolerance of 2 units past a boundary, so
\* after update() a dynamic ball is within 2 units of the stated range.
C8_PenetrationWithinTolerance ==
  /\ engine = "part004" =>
       \A id \in Dynamic : WithinField(body[id], EnforceWall004, 0)
  /\ engine = "part006" =>
       \A id \in Dynamic : WithinField(body[id], EnforceWall006, Tolerance006)

\* A ball the solver left in the bottom left corner has been put back on
\* the wall and on the floor.
C8_Witness ==
  /\ engine = "part006"
  /\ \E id \in Dynamic :
       /\ body[id].x = EnforceWall006 + body[id].radius
       /\ body[id].y = CanvasHeight - EnforceWall006 - body[id].radius

\* C9: after every update() of the engine that scales speeds above 18 by
\* 0.9, the speed of every non-static ball is at most 20, whatever the
\* solver produced (a size-1 ball and a size-5 ball colliding included).
C9_SpeedCapped ==
  engine = "part011" =>
    \A id \in Dynamic : SpeedSq(body[id]) <= Sq(MaxVelocity011 * Milli)

\* A ball launched by a contact leaves update() at exactly the cap while
\* the large ball is in play.
C9_Witness ==
  /\ engine = "part011"
  /\ Dynamic = PhysBodies
  /\ \E id \in Dynamic : SpeedSq(body[id]) = Sq(MaxVelocity011 * Milli)

restClamp(b) ==
  IF engine = "sceneJs" THEN stopJitteringBody(b) ELSE clampBody011(b)

\* C10: a ball at velocity (0,0) and angular velocity 0 on which only
\* gravity acts is at exactly that state after update(), and the rest clamp
\* leaves a ball at rest as it is.
C10_RestIsKept ==
  engine \in {"sceneJs", "part011"} =>
    /\ \A id \in undisturbed : AtRest(body[id])
    /\ \A id \in Dynamic : AtRest(body[id]) => restClamp(body[id]) = body[id]

\* C11: after the post-collision cleanup of the first boundary collision of
\* a ball that was released with zero horizontal velocity and has touched no
\* ball, the magnitude of its horizontal velocity is below the cleanup
\* threshold (0.001), for the floor and for a side wall alike.
C11_StraightAfterFirstBoundary ==
  (faller # NotConstructed /\ faller.turn) =>
     Abs(faller.vx) < CleanupThreshold011

\* C12: createCircle and createRectangle throw whenever the factory has no
\* world; the call then creates no body, consumes no body id and changes
\* nothing else.  A call that does not throw has created exactly one body.
FactoryCall == factory # NotConstructed /\ factory'.calls = factory.calls + 1

C12_CreateThrowsWithoutWorld ==
  [][FactoryCall =>
       IF factory.world = NoWorld
       THEN /\ factory'.last = "threw"
            /\ factory'.bodies = factory.bodies
            /\ factory'.idCounter = factory.idCounter
            /\ factory'.world = factory.world
            /\ physics' = physics
       ELSE /\ factory'.last = "body"
            /\ Len(factory'.bodies) = Len(factory.bodies) + 1]_vars

C12_Witness ==
  /\ factory # NotConstructed
  /\ factory.last = "threw"
  /\ factory.bodies = << >>
  /\ factory.idCounter = 1

\* C13: a dispatch of a contact event invokes every handler that was
\* registered for its type when it began, exactly once and in registration
\* order, whatever on/off calls came before or are made by the handlers
\* meanwhile, and it invokes no handler of another type.
Expected(eventType, handlers) ==
  [k \in 1..Len(handlers) |-> <<eventType, handlers[k]>>]

C13_EveryHandlerOnceInOrder ==
  (physics # NotConstructed /\ physics.dispatched # "none") =>
     physics.invoked = Expected(physics.dispatched, physics.registered)

\* C14: once destroy() has released the world, the instance stays dead: no
\* handler is invoked, update() advances nothing, the world reference stays
\* released and a create() on the instance fails loudly.
C14_DestroyedInstanceStaysDead ==
  [][(physics # NotConstructed /\ physics.destroyed) =>
       /\ physics'.invoked = physics.invoked
       /\ physics'.steps = physics.steps
       /\ (physics'.made # physics.made => physics'.error)
       /\ physics'.world = NoWorld]_vars

\* C15 as stated: every update(stepSeconds) on an initialized world makes
\* exactly one world step, of the duration it was passed.
UpdateCall ==
  /\ physics # NotConstructed
  /\ physics'.updates = physics.updates + 1
  /\ physics.world # NoWorld

C15_OneStepOfPassedDuration ==
  [][UpdateCall => /\ physics'.steps = physics.steps + 1
                   /\ physics'.stepped = physics'.asked]_vars

\* C15 as amended: every update() on an initialized world makes exactly one
\* world step, of 1/60 s whatever duration it was passed.
C15_OneFixedStepPerUpdate ==
  [][UpdateCall => /\ physics'.steps = physics.steps + 1
                   /\ physics'.stepped = FixedTimeStep000]_vars

C15_Witness ==
  /\ physics # NotConstructed
  /\ physics.updates > 0
  /\ physics.steps = physics.updates
  /\ physics.asked # FixedTimeStep000
  /\ physics.stepped = FixedTimeStep000

\* C16: every physical press of a drop control (Space, ArrowDown, gamepad
\* button A) raises the drop intent exactly once, however many repeated
\* keydown events or polls it spans and whatever other drop control is held
\* meanwhile: never more than once while it is held, once when it has ended.
C16_DropOncePerPress ==
  input # NotConstructed =>
    \A c \in DropControls :
      /\ input.fired[c] <= 1
      /\ input.done[c] \in {NotPressed, 1}

\* A step in which spawnBall has created the new current ball.
SpawnedNow == currentBall = NoBall /\ currentBall' # NoBall

\* The snapshots that keep a precomputed nextBallSize (ball.js, part_014).
HasNextSize == variant \in {"ballJs", "part014"}

FreshGameScene(M) ==
  /\ M.ballManager = NewBallManager(M.ballManager.now)
  /\ ~M.showExitDialog
  /\ ~M.exitToMenu

\* C18: no physics state persists across a scene exit and re-entry: every
\* time the game scene becomes the current scene its world holds no ball
\* of an earlier activation and the spawn/drop state is the initial one.
C18_FreshWorldOnActivation ==
  [][ (scenes.currentSceneKey # "ballsX" /\ scenes'.currentSceneKey = "ballsX")
        => FreshGameScene(scenes') ]_vars

\* The phase of a frame to which a logged call belongs.
Phase(e) ==
  CASE e.op \in {"drop", "input", "move"} -> 1
    [] e.op = "step" -> 2
    [] e.op \in {"spawn", "cleanup"} -> 3
    [] OTHER -> 4

\* C19: within one frame the calls come in the order input (move and drop
\* intents), physics sub-steps, spawn/cleanup, render: no intent is applied
\* after a sub-step and nothing is rendered before the spawn/cleanup.
C19_FramePhasesInOrder ==
  loop # NotConstructed =>
    \A i, j \in 1..Len(loop.log) :
      i < j => Phase(loop.log[i]) <= Phase(loop.log[j])

\* C20: in every frame updatePhysics performs exactly
\* floor((accumulator + delta) / fixedTimeStep) update calls, each with the
\* constant fixedTimeStep, and leaves 0 <= accumulator < fixedTimeStep;
\* after any number of frames steps * fixedTimeStep + accumulator is the
\* sum of all deltas.
C20_AccumulatorPattern ==
  (loop # NotConstructed /\ loop.driver \in AccumulatorDrivers) =>
    /\ loop.stepsInFrame = (loop.before + loop.delta) \div FixedTimeStep
    /\ loop.accumulator >= 0
    /\ loop.accumulator < FixedTimeStep
    /\ loop.stepCount * FixedTimeStep + loop.accumulator = loop.elapsed
    /\ \A i \in 1..Len(loop.log) :
         loop.log[i].op = "step" => loop.log[i].dt = FixedTimeStep

\* Sub-steps have been performed, the last frame performed none although
\* time passed, and more time than that frame brought is left over.
C20_Witness ==
  /\ loop # NotConstructed
  /\ loop.driver \in AccumulatorDrivers
  /\ loop.frames >= 2
  /\ loop.stepCount >= 2
  /\ loop.stepsInFrame = 0
  /\ loop.delta > 0
  /\ loop.accumulator > loop.delta

\* C21: verticalDrop is true only of a ball that has been released: it is
\* false while the ball is the held current ball, and once it has been
\* cleared it never becomes true again.
C21_VerticalDropOnlyAfterRelease ==
  [][ /\ \A id \in 1..Len(ball') :
           ball'[id].verticalDrop => id # currentBall'
      /\ \A id \in Ids :
           ~ball[id].verticalDrop => ~ball'[id].verticalDrop ]_vars

\* C22: while verticalDrop is true the released ball keeps, after every
\* frame, the x it had at release.
C22_PinnedWhileVerticalDrop ==
  (faller # NotConstructed /\ faller.verticalDrop /\ faller.frames >= 1)
     => faller.x = faller.verticalDropXCoordinate

\* C24: the deferred callback of a contact leaves the velocity and the
\* angular velocity of a body alone that was removed from the world after
\* the contact began.
C24_RemovedBodyLeftAlone ==
  [][ (~faller.inWorld /\ ~faller.turn /\ faller'.turn)
        => /\ faller'.vx = faller.vx
           /\ faller'.vy = faller.vy
           /\ faller'.av = faller.av ]_vars

\* The classification of the spec: the horizontal speed is smaller than
\* max(1.0, 0.1 x the vertical speed).
ClassifiedVertical(v) ==
  VerticalRatio011 * Abs(v.vx) <
     Max(VerticalRatio011 * VerticalFloor011, Abs(v.vy))

\* C23: at the contact start of a ball with the floor or a side wall the
\* horizontal velocity is zeroed, the vertical one kept, exactly when the
\* velocity before the contact is classified vertical; otherwise the
\* velocity is not changed.
C23_VerticalContactZeroesVx ==
  (contact # NotConstructed /\ contact.handled) =>
    /\ contact.ball.vy = contact.pre.vy
    /\ contact.ball.vx = IF ClassifiedVertical(contact.pre) THEN 0
                         ELSE contact.pre.vx

\* The body is below the linear and the angular threshold under which
\* stabilizePhysics (part_004) counts a frame as still.
BelowRest(b) ==
  SpeedSq(b) < Sq(SleepThreshold004) /\ Abs(b.av) < AngularSleep004

\* C25: an update puts a ball to sleep only when the ball was below the
\* rest thresholds before that update already and, in the engine that
\* counts still frames, has been still for more than 10 consecutive
\* frames; the ball put to sleep has no velocity and no angular velocity.
C25_SleepOnlyAfterSustainedStillness ==
  [][ \A id \in PhysBodies :
        (~body[id].isSleeping /\ body'[id].isSleeping) =>
           /\ BelowRest(body[id])
           /\ engine = "part004" =>
                 body'[id].stableFrames > StableFramesToSleep
           /\ body'[id].vx = 0 /\ body'[id].vy = 0 /\ body'[id].av = 0
    ]_vars

\* A non-sleeping ball j is within the sum of the radii + 50 of ball i and
\* moves faster than 0.5.
Approached(i, j) ==
  /\ ~body[j].isStatic
  /\ ~body[j].isSleeping
  /\ DistSq(body[i], body[j]) <
        Sq(body[i].radius + body[j].radius + WakeGap006)
  /\ SpeedSq(body[j]) > Sq(WakeSpeed006)

\* C26: after an update() of the engine with manageSleepingBodies no ball
\* sleeps while a non-sleeping ball within the sum of the radii + 50 of it
\* moves faster than 0.5.
C26_ApproachedBallIsAwake ==
  engine = "part006" =>
    \A i \in PhysBodies : \A j \in PhysBodies \ {i} :
      ~(~body[i].isStatic /\ body[i].isSleeping /\ Approached(i, j))

\* A ball without any velocity is approached and awake: stabilizeBodies
\* puts every ball that slow to sleep, so manageSleepingBodies has woken
\* it in the same update.
C26_Witness ==
  /\ engine = "part006"
  /\ \E i \in PhysBodies : \E j \in PhysBodies \ {i} :
       /\ ~body[i].isStatic
       /\ ~body[i].isSleeping
       /\ AtRest(body[i])
       /\ Approached(i, j)

\* C27: every frame of a released ball in free fall leaves the ball awake
\* and faster downwards than the frame before.
C27_FreeFallKeepsAccelerating ==
  [][ (DOMAIN body = {1} /\ body' # body) =>
         /\ ~body'[1].isSleeping
         /\ body'[1].vy > body[1].vy ]_vars

\* C28: the callback of a respawn timer, which fires at or after the end
\* of the cooldown of a drop, leaves the game with a current ball.
C28_RespawnAtExpiry ==
  (respawn # NotConstructed /\ respawn.last = "checkForNextSpawn") =>
     /\ respawn.now >= respawn.dropAt + RespawnDelay
     /\ respawn.held

\* C29: while a current ball is held its body is in the physics world and,
\* where the manager keeps a list, the ball is in the balls list.
C29_HeldBallIsAlive ==
  currentBall # NoBall =>
    /\ currentBall \in world
    /\ variant \in ListVariants => InList(Cur, currentBall)

\* C30: at most one game-loop callback is pending at any time, and the
\* callbacks of one display refresh process at most one frame.
C30_OneCallbackChain ==
  game # NotConstructed =>
    /\ game.pending <= 1
    /\ game.refreshes > 0 => game.processed <= 1

====
